---- MODULE Spec2Model ----
(***************************************************************************)
(* RecordNow hybrid block editor: the segmentation of a Markdown string    *)
(* into blocks, the Block Store of HybridEditor and its edit handlers, the *)
(* Table Model of TableEditor, and the document list of useFileSystem.     *)
(*                                                                         *)
(* A JavaScript string is a sequence of one-character strings.             *)
(***************************************************************************)
EXTENDS Integers, Sequences, FiniteSets, TLC

VARIABLES
    files,          \* useFileSystem: document id -> content
    activeFileId,   \* useFileSystem: the active document, or NoFile
    editorKeyed,    \* which App mounts the editor: with key={activeFile.id} or without
    blocks,         \* HybridEditor: the block sequence
    focusedBlockId, \* HybridEditor: id of the focused block, or NoId
    cursorOffset,   \* HybridEditor: the cursor request, or NoOffset
    selection,      \* the caret that the program or the browser put into the focused textarea
    caret,          \* selectionStart of the textarea that the last key or paste event saw
    pasted,         \* [text, end]: clipboard text and selectionEnd of the last event, if a paste
    composing,      \* ids of the blocks whose EditorBlock has its isComposing ref set
    initialized,    \* HybridEditor: the initialized ref
    nextId,         \* the next value generateId hands out
    timers,         \* the pending setTimeout(0) callbacks of the editor and its blocks, oldest first
    drops,          \* image encodings in flight: the document active when each drop began
    data,           \* TableEditor: the table model of the focused table block, or NoData
    lastOnChange,   \* the string last passed to HybridEditor's onChange, or NoChange
    segRuns,        \* how often the segmentation body ran in this editor instance
    blocksDoc,      \* the document the current blocks were segmented from
    propagated,     \* [to, from]: the document that received the last onChange, and blocksDoc then
    lastOp,         \* name of the last handler that ran
    steps,          \* number of handler runs so far that changed the state
    arg,            \* input of the pure function under check
    res,            \* its result
    pc,             \* position of the pure-function harness
    call,           \* TableEditor harness: the handler called last and its arguments
    stored,         \* document id -> the content last written to its file or to LocalStorage
    saveStatus,     \* useFileSystem: 'saved', 'saving' or 'unsaved'
    autoSaveTimer,  \* the pending callback of autoSaveTimerRef: [targetId, content], or NoSave
    hasHandle       \* the documents are files of a folder (handle) or entries of LocalStorage

vars == <<files, activeFileId, editorKeyed, blocks, focusedBlockId, cursorOffset, selection, caret,
          pasted, composing,
          initialized, nextId, timers, drops, data, lastOnChange, segRuns, blocksDoc, propagated,
          lastOp, steps, arg, res, pc, call, stored, saveStatus, autoSaveTimer, hasHandle>>

editorVars == <<files, activeFileId, editorKeyed, blocks, focusedBlockId, cursorOffset,
                selection, caret,
                pasted, composing,
                initialized, nextId, timers, drops, data, lastOnChange, segRuns, blocksDoc,
                propagated, lastOp, steps>>

harnessVars == <<arg, res, pc, call>>

saveVars == <<stored, saveStatus, autoSaveTimer, hasHandle>>

\* null for a block id (ids count from 1) and for a cursor offset
NoId == 0
NoOffset == -1
NoFile == "nofile"
\* no TableEditor is mounted; also the null parseMarkdownTable returns
NoData == [nodata |-> TRUE]
\* nothing was passed to onChange yet
NoChange == <<"nochange">>
NoPropagation == [to |-> NoFile, from |-> NoFile]
\* the last event was no paste
NoCall == [op |-> "none", a |-> 0, b |-> 0]

NoPaste == [text |-> <<>>, end |-> NoOffset]
\* no auto-save is scheduled
NoSave == [targetId |-> NoFile, content |-> <<>>]

----------------------------------------------------------------------------
(* Strings *)

NL == "\n"
CR == "\r"
\* the backtick character, which a TLA+ string cannot hold
BT == "BT"
PIPE == "|"
SP == " "

Fence == <<BT, BT, BT>>

\* String.prototype.trim strips these from both ends
Whitespace == {" ", "\n", "\r", "\t"}

RECURSIVE TrimStart(_)
TrimStart(s) ==
    IF s = <<>> THEN s
    ELSE IF Head(s) \in Whitespace THEN TrimStart(Tail(s)) ELSE s

RECURSIVE TrimEnd(_)
TrimEnd(s) ==
    IF s = <<>> THEN s
    ELSE IF s[Len(s)] \in Whitespace THEN TrimEnd(SubSeq(s, 1, Len(s) - 1)) ELSE s

Trim(s) == TrimEnd(TrimStart(s))

StartsWith(s, p) == Len(s) >= Len(p) /\ SubSeq(s, 1, Len(p)) = p

EndsWith(s, p) == Len(s) >= Len(p) /\ SubSeq(s, Len(s) - Len(p) + 1, Len(s)) = p

\* s.substring(from) and s.substring(from, to), 0-based, end exclusive; substring
\* swaps its arguments when from > to
Substring(s, from, to) ==
    IF from <= to THEN SubSeq(s, from + 1, to) ELSE SubSeq(s, to + 1, from)

\* a mutant of SubstringFrom: the character at from is skipped
SubstringFromNext(s, from) == SubSeq(s, from + 2, Len(s))

SubstringFrom(s, from) == SubSeq(s, from + 1, Len(s))

\* s.split(c) for a one-character separator
RECURSIVE Split(_, _)
Split(s, c) ==
    IF \A i \in 1..Len(s) : s[i] # c THEN <<s>>
    ELSE LET i == CHOOSE k \in 1..Len(s) : s[k] = c /\ \A j \in 1..(k - 1) : s[j] # c
         IN  <<SubSeq(s, 1, i - 1)>> \o Split(SubSeq(s, i + 1, Len(s)), c)

\* a mutant of SplitLines: only the line feed ends a line
SplitAtLineFeeds(s) == Split(s, NL)

\* s.split(/\r\n|\r|\n/): the lines of s, whichever line ending closes them
RECURSIVE SplitLines(_)
SplitLines(s) ==
    IF \A i \in 1..Len(s) : s[i] \notin {CR, NL} THEN <<s>>
    ELSE LET i == CHOOSE k \in 1..Len(s) :
                      s[k] \in {CR, NL} /\ \A j \in 1..(k - 1) : s[j] \notin {CR, NL}
             n == IF s[i] = CR /\ i < Len(s) /\ s[i + 1] = NL THEN 2 ELSE 1
         IN  <<SubSeq(s, 1, i - 1)>> \o SplitLines(SubSeq(s, i + n, Len(s)))

\* parts.join(sep)
RECURSIVE Join(_, _)
Join(parts, sep) ==
    IF parts = <<>> THEN <<>>
    ELSE IF Len(parts) = 1 THEN parts[1]
    ELSE parts[1] \o sep \o Join(Tail(parts), sep)

\* (s.match(/c/g) || []).length for a one-character pattern
CountChar(s, c) == Cardinality({i \in 1..Len(s) : s[i] = c})

\* (s.match(/FENCE/g) || []).length, FENCE being three backticks: matches do not overlap
RECURSIVE CountFences(_)
CountFences(s) ==
    IF Len(s) < 3 THEN 0
    ELSE IF StartsWith(s, Fence) THEN 1 + CountFences(SubSeq(s, 4, Len(s)))
    ELSE CountFences(Tail(s))

isTableLine(line) == StartsWith(Trim(line), <<PIPE>>)

IsFenceLine(line) == StartsWith(Trim(line), Fence)

----------------------------------------------------------------------------
(* Segmentation: the mount effect of HybridEditor *)

\* a mutant of CodeBlockOf: a line break is left behind the last buffered line
CodeBlockOfTrailingBreak(buffer, id) ==
    [id |-> id, content |-> Join(buffer, <<NL>>) \o <<NL>>, type |-> "text"]

CodeBlockOf(buffer, id) == [id |-> id, content |-> Join(buffer, <<NL>>), type |-> "text"]

TableBlockOf(buffer, id) == [id |-> id, content |-> Join(buffer, <<NL>>), type |-> "table"]

\* a mutant of TextBlockOf: the line is stored trimmed
TextBlockOfTrimmed(line, id) == [id |-> id, content |-> Trim(line), type |-> "text"]

TextBlockOf(line, id) == [id |-> id, content |-> line, type |-> "text"]

\* a mutant of CodeRegionEnd: a table line ends the region before it
RECURSIVE CodeRegionEndAtPipe(_, _)
CodeRegionEndAtPipe(lines, i) ==
    IF i > Len(lines) THEN Len(lines)
    ELSE IF IsFenceLine(lines[i]) THEN i
    ELSE IF isTableLine(lines[i]) THEN i - 1
    ELSE CodeRegionEndAtPipe(lines, i + 1)

\* the inner while of the code-block branch: the index of the last buffered line
RECURSIVE CodeRegionEnd(_, _)
CodeRegionEnd(lines, i) ==
    IF i > Len(lines) THEN Len(lines)
    ELSE IF IsFenceLine(lines[i]) THEN i
    ELSE CodeRegionEnd(lines, i + 1)

\* a mutant of TableRegionEnd: the run is not extended
TableRegionEndAtOnce(lines, i) == i

\* the inner while of the table branch: the index of the last buffered line
RECURSIVE TableRegionEnd(_, _)
TableRegionEnd(lines, i) ==
    IF i + 1 <= Len(lines) /\ isTableLine(lines[i + 1]) THEN TableRegionEnd(lines, i + 1)
    ELSE i

\* the outer while, from line i (1-based), handing out ids from id on
RECURSIVE SegmentLines(_, _, _)
SegmentLines(lines, i, id) ==
    IF i > Len(lines) THEN <<>>
    ELSE IF IsFenceLine(lines[i]) THEN
        LET j == CodeRegionEnd(lines, i + 1)
        IN  <<CodeBlockOf(SubSeq(lines, i, j), id)>> \o SegmentLines(lines, j + 1, id + 1)
    ELSE IF isTableLine(lines[i]) THEN
        LET j == TableRegionEnd(lines, i)
        IN  <<TableBlockOf(SubSeq(lines, i, j), id)>> \o SegmentLines(lines, j + 1, id + 1)
    ELSE <<TextBlockOf(lines[i], id)>> \o SegmentLines(lines, i + 1, id + 1)

Segment(content, id) ==
    IF content # <<>> THEN SegmentLines(Split(content, NL), 1, id)
    ELSE <<[id |-> id, content |-> <<>>, type |-> "text"]>>

\* updateParent's newBlocks.map(b => b.content).join('\n')
JoinedContent(bs) == Join([i \in 1..Len(bs) |-> bs[i].content], <<NL>>)

----------------------------------------------------------------------------
(* Inputs of the segmentation harness *)

MaxSegLines == 3

SegLines ==
    { <<>>, <<"a">>, <<SP, "a">>, Fence, <<SP>> \o Fence \o <<"a">>,
      <<PIPE, "a", PIPE>>, <<SP, PIPE>>, <<"a", PIPE>> }

SegInputs ==
    {<<>>} \cup
    { Join(ls, <<NL>>) : ls \in UNION {[1..n -> SegLines] : n \in 1..MaxSegLines} }

\* the editor's variables while only a pure function is exercised
\* nothing is being saved: every document is stored as it is held
StoreIdle ==
    /\ stored = files
    /\ saveStatus = "saved"
    /\ autoSaveTimer = NoSave

EditorIdle ==
    /\ files = <<>>
    /\ activeFileId = NoFile
    /\ editorKeyed = TRUE
    /\ blocks = <<>>
    /\ focusedBlockId = NoId
    /\ cursorOffset = NoOffset
    /\ selection = NoOffset
    /\ caret = NoOffset
    /\ pasted = NoPaste
    /\ composing = {}
    /\ initialized = FALSE
    /\ nextId = 1
    /\ timers = <<>>
    /\ drops = <<>>
    /\ data = NoData
    /\ lastOnChange = NoChange
    /\ segRuns = 0
    /\ blocksDoc = NoFile
    /\ propagated = NoPropagation
    /\ lastOp = "none"
    /\ steps = 0
    /\ StoreIdle
    /\ hasHandle = TRUE

SegInit ==
    /\ EditorIdle
    /\ arg \in SegInputs
    /\ res = <<>>
    /\ pc = "input"
    /\ call = NoCall

RunSegment ==
    /\ pc = "input"
    /\ res' = Segment(arg, 1)
    /\ pc' = "segmented"
    /\ UNCHANGED <<arg, call, editorVars, saveVars>>

\* an editor mounts on the joined content of the blocks just segmented
Resegment ==
    /\ pc = "segmented"
    /\ blocks' = Segment(JoinedContent(res), 1 + Len(res))
    /\ pc' = "resegmented"
    /\ UNCHANGED <<files, activeFileId, editorKeyed, focusedBlockId, cursorOffset, selection, caret,
                   pasted, composing, initialized, nextId, timers, drops, data, lastOnChange,
                   segRuns, blocksDoc, propagated, lastOp, steps, arg, res, call, saveVars>>

SegNext == RunSegment \/ Resegment

SpecSeg == SegInit /\ [][SegNext]_vars

\* the lines of all blocks, in block order
RECURSIVE BlockLines(_)
BlockLines(bs) ==
    IF bs = <<>> THEN <<>>
    ELSE Split(Head(bs).content, NL) \o BlockLines(Tail(bs))

\* C1: joining the contents of the blocks segmented from s with '\n' gives s
\* back, and the lines of the blocks are the lines of s, each once, in order;
\* the empty string gives one empty block.
C1_SegmentRoundTrip ==
    pc = "segmented" =>
        /\ JoinedContent(res) = arg
        /\ BlockLines(res) = Split(arg, NL)
        /\ (arg = <<>> => Len(res) = 1 /\ res[1].content = <<>>)

\* a fenced region with indented text after it has been segmented
C1_Witness ==
    /\ pc = "segmented"
    /\ arg = Fence \o <<NL>> \o Fence \o <<NL, SP, "a">>
    /\ Len(res) = 2
    /\ res[2].content = <<SP, "a">>

----------------------------------------------------------------------------
(* Table Model: parseMarkdownTable, serializeTable, TableEditor *)

\* an array slot that was never assigned (arr[i] = v beyond arr.length leaves holes)
Hole == "hole"

\* line.trim().replace(/^\||\|$/g, '')
StripPipes(s) ==
    LET s1 == IF StartsWith(s, <<PIPE>>) THEN Tail(s) ELSE s
    IN  IF EndsWith(s1, <<PIPE>>) THEN SubSeq(s1, 1, Len(s1) - 1) ELSE s1

parseRow(line) ==
    LET cells == Split(StripPipes(Trim(line)), PIPE)
    IN  [i \in 1..Len(cells) |-> Trim(cells[i])]

AlignmentOf(s) ==
    IF StartsWith(s, <<":">>) /\ EndsWith(s, <<":">>) THEN "center"
    ELSE IF EndsWith(s, <<":">>) THEN "right"
    ELSE "left"

\* arr.filter(l => l.trim() !== '')
RECURSIVE NonBlank(_)
NonBlank(ls) ==
    IF ls = <<>> THEN <<>>
    ELSE IF Trim(Head(ls)) # <<>> THEN <<Head(ls)>> \o NonBlank(Tail(ls))
    ELSE NonBlank(Tail(ls))

TableLinesOf(md) == NonBlank(Split(Trim(md), NL))

\* NoData stands for the null it returns
parseMarkdownTable(md) ==
    LET lines == TableLinesOf(md)
    IN  IF Len(lines) < 2 THEN NoData
        ELSE LET alignmentLine == parseRow(lines[2])
             IN  [ headers    |-> parseRow(lines[1]),
                   alignments |-> [i \in 1..Len(alignmentLine) |-> AlignmentOf(alignmentLine[i])],
                   rows       |-> [r \in 1..(Len(lines) - 2) |-> parseRow(lines[r + 2])] ]

\* a hole among strings
HoleCell == <<Hole>>

\* cells.join(' | ') inside the template of formatRow; a hole joins as ''
formatRow(cells) ==
    <<PIPE, SP>>
    \o Join([i \in 1..Len(cells) |-> IF cells[i] = HoleCell THEN <<>> ELSE cells[i]], <<SP, PIPE, SP>>)
    \o <<SP, PIPE>>

\* a mutant of AlignCell: the right-alignment marker has its colon in front
AlignCellColonFirst(a) ==
    IF a = Hole THEN HoleCell
    ELSE IF a = "center" THEN <<":", "-", "-", "-", ":">>
    ELSE IF a = "right" THEN <<":", "-", "-", "-">>
    ELSE <<"-", "-", "-">>

\* the callback of alignments.map in serializeTable; map skips holes
AlignCell(a) ==
    IF a = Hole THEN HoleCell
    ELSE IF a = "center" THEN <<":", "-", "-", "-", ":">>
    ELSE IF a = "right" THEN <<"-", "-", "-", ":">>
    ELSE <<"-", "-", "-">>

serializeTable(headers, alignments, rows) ==
    Join(<<formatRow(headers), formatRow([i \in 1..Len(alignments) |-> AlignCell(alignments[i])])>>
         \o [r \in 1..Len(rows) |-> formatRow(rows[r])],
         <<NL>>)

\* the fallback of TableEditor's useState initializer
DefaultTable ==
    [ headers    |-> << <<"H","e","a","d","e","r"," ","1">>, <<"H","e","a","d","e","r"," ","2">> >>,
      alignments |-> <<"left", "left">>,
      rows       |-> << << <<"C","e","l","l"," ","1">>, <<"C","e","l","l"," ","2">> >> >> ]

\* useState(() => parseMarkdownTable(content) || default)
TableEditorInit(content) ==
    IF parseMarkdownTable(content) = NoData THEN DefaultTable ELSE parseMarkdownTable(content)

\* arr.splice(at, 0, v), at 0-based: a start beyond the end appends
SpliceIn(arr, at, v) ==
    LET k == IF at > Len(arr) THEN Len(arr) ELSE at
    IN  SubSeq(arr, 1, k) \o <<v>> \o SubSeq(arr, k + 1, Len(arr))

\* arr.splice(at, 1), at 0-based: a start beyond the end removes nothing
SpliceOut(arr, at) ==
    IF at >= Len(arr) THEN arr
    ELSE SubSeq(arr, 1, at) \o SubSeq(arr, at + 2, Len(arr))

\* arr[at] = v, at 0-based: beyond the end the array grows, with holes in between
SetAt(arr, at, v) ==
    [i \in 1..(IF at + 1 > Len(arr) THEN at + 1 ELSE Len(arr)) |->
        IF i = at + 1 THEN v ELSE IF i <= Len(arr) THEN arr[i] ELSE Hole]

\* new Array(n).fill('')
EmptyRow(n) == [i \in 1..n |-> <<>>]

\* handleCellChange(rowIndex, colIndex, value); rowIndex -1 is the header row
CellChanged(d, rowIndex, colIndex, value) ==
    IF rowIndex = -1 THEN [d EXCEPT !.headers = SetAt(@, colIndex, value)]
    ELSE [d EXCEPT !.rows[rowIndex + 1] = SetAt(@, colIndex, value)]

ColumnAdded(d, index) ==
    [ headers    |-> SpliceIn(d.headers, index + 1, <<"N", "e", "w">>),
      alignments |-> SpliceIn(d.alignments, index + 1, "left"),
      rows       |-> [r \in 1..Len(d.rows) |-> SpliceIn(d.rows[r], index + 1, <<>>)] ]

RowAdded(d, index) ==
    [d EXCEPT !.rows = SpliceIn(@, index + 1, EmptyRow(Len(d.headers)))]

\* removeColumn below its guard
ColumnRemoved(d, index) ==
    [ headers    |-> SpliceOut(d.headers, index),
      alignments |-> SpliceOut(d.alignments, index),
      rows       |-> [r \in 1..Len(d.rows) |-> SpliceOut(d.rows[r], index)] ]

RowRemoved(d, index) ==
    LET left == SpliceOut(d.rows, index)
    IN  [d EXCEPT !.rows = IF Len(left) = 0 THEN <<EmptyRow(Len(d.headers))>> ELSE left]

AlignmentSet(d, colIndex, align) ==
    [d EXCEPT !.alignments = SetAt(@, colIndex, align)]

\* a mutant of RowMoved: the row is not taken out of its old place
RowMovedTwice(d, from, to) ==
    [d EXCEPT !.rows = SpliceIn(@, to, d.rows[from + 1])]

\* moveRow below its guard
RowMoved(d, from, to) ==
    [d EXCEPT !.rows = SpliceIn(SpliceOut(@, from), to, d.rows[from + 1])]

----------------------------------------------------------------------------
(* The table harness: a TableEditor mounted on a table block's content *)

\* how many table mutations a behaviour of the harness makes
MaxTableSteps == 3

HeaderLines ==
    { <<PIPE, "a", PIPE, "b", PIPE>>, <<PIPE, SP, "a", SP, PIPE>>, <<PIPE, PIPE>> }

DelimiterLines ==
    { <<PIPE, "-", "-", "-", PIPE, "-", "-", "-", PIPE>>,
      <<PIPE, ":", "-", ":", PIPE, "-", ":", PIPE>>,
      <<PIPE, SP, "-", "-", "-", SP, PIPE>> }

RowLines ==
    { <<PIPE, "x", PIPE, PIPE>>, <<PIPE, SP, "x">>, <<PIPE, SP, PIPE, SP, PIPE, "x", PIPE>> }

\* contents a table-type block can have: runs of lines that start with a pipe
TableInputs ==
    HeaderLines
    \cup { Join(<<h, d>> \o rs, <<NL>>) :
             h \in HeaderLines, d \in DelimiterLines,
             rs \in UNION {[1..n -> RowLines] : n \in {0, 1}} }

CellValues == { <<>>, <<"x">> }

Alignments == {"left", "center", "right"}

TableInit ==
    /\ EditorIdle
    /\ arg \in TableInputs
    /\ res = NoData
    /\ pc = "input"
    /\ call = NoCall

\* TableEditor mounts on the block content arg
MountTableEditor ==
    /\ pc = "input"
    /\ data' = TableEditorInit(arg)
    /\ pc' = IF parseMarkdownTable(arg) = NoData THEN "fallback" ELSE "parsed"
    /\ UNCHANGED <<files, activeFileId, editorKeyed, blocks, focusedBlockId, cursorOffset,
                   selection, caret,
                   pasted, composing,
                   initialized, nextId, timers, drops, lastOnChange, segRuns, blocksDoc,
                   propagated, lastOp, steps, arg, res, call, saveVars>>

\* the parsed model is serialized and parsed again
Reparse ==
    /\ pc = "parsed"
    /\ lastOnChange = NoChange
    /\ res' = parseMarkdownTable(serializeTable(data.headers, data.alignments, data.rows))
    /\ pc' = "reparsed"
    /\ UNCHANGED <<arg, call, editorVars, saveVars>>

TableMounted == pc \in {"parsed", "fallback"} /\ steps < MaxTableSteps

\* updateMarkdown(newData): setData, then onChange(serializeTable(...))
updateMarkdown(newData) ==
    /\ data' = newData
    /\ lastOnChange' = serializeTable(newData.headers, newData.alignments, newData.rows)
    /\ steps' = steps + 1
    /\ UNCHANGED <<files, activeFileId, editorKeyed, blocks, focusedBlockId, cursorOffset,
                   selection, caret,
                   pasted, composing,
                   initialized, nextId, timers, drops, segRuns, blocksDoc, propagated,
                   lastOp>>

handleCellChange(rowIndex, colIndex, value) ==
    updateMarkdown(CellChanged(data, rowIndex, colIndex, value))

addColumn(index) == updateMarkdown(ColumnAdded(data, index))

addRow(index) == updateMarkdown(RowAdded(data, index))

\* a mutant of removeColumn: the last column goes as well
removeColumnUnguarded(index) == updateMarkdown(ColumnRemoved(data, index))

removeColumn(index) ==
    IF Len(data.headers) <= 1 THEN UNCHANGED editorVars
    ELSE updateMarkdown(ColumnRemoved(data, index))

removeRow(index) == updateMarkdown(RowRemoved(data, index))

setAlignment(colIndex, align) == updateMarkdown(AlignmentSet(data, colIndex, align))

moveRow(from, to) ==
    IF to < 0 \/ to >= Len(data.rows) THEN UNCHANGED editorVars
    ELSE updateMarkdown(RowMoved(data, from, to))

\* the inputs the rendered table offers: one input per header and per cell, the
\* column toolbar per header, the row toolbar per row, two Add buttons
\* the control used is one call of a handler: call records it
Called(op, x, y) ==
    /\ call' = [op |-> op, a |-> x, b |-> y]
    /\ UNCHANGED <<arg, res, pc, saveVars>>

TableCellInput ==
    /\ TableMounted
    /\ \E r \in 1..Len(data.rows) : \E c \in 1..Len(data.rows[r]) : \E v \in CellValues :
          /\ v # data.rows[r][c]
          /\ handleCellChange(r - 1, c - 1, v)
          /\ Called("handleCellChange", r - 1, c - 1)

TableHeaderInput ==
    /\ TableMounted
    /\ \E c \in 1..Len(data.headers) : \E v \in CellValues :
          /\ v # data.headers[c]
          /\ handleCellChange(-1, c - 1, v)
          /\ Called("handleCellChange", -1, c - 1)

TableAddColumn ==
    /\ TableMounted
    /\ addColumn(Len(data.headers) - 1)
    /\ Called("addColumn", Len(data.headers) - 1, 0)

TableAddRow ==
    /\ TableMounted
    /\ addRow(Len(data.rows) - 1)
    /\ Called("addRow", Len(data.rows) - 1, 0)

TableRemoveColumn ==
    /\ TableMounted
    /\ \E c \in 1..Len(data.headers) :
          removeColumn(c - 1) /\ Called("removeColumn", c - 1, 0)

TableRemoveRow ==
    /\ TableMounted
    /\ \E r \in 1..Len(data.rows) :
          removeRow(r - 1) /\ Called("removeRow", r - 1, 0)

TableSetAlignment ==
    /\ TableMounted
    /\ \E c \in 1..Len(data.headers) : \E a \in Alignments :
          setAlignment(c - 1, a) /\ Called("setAlignment", c - 1, 0)

TableMoveRow ==
    /\ TableMounted
    /\ \E r \in 1..Len(data.rows) : \E to \in {r - 2, r} :
          moveRow(r - 1, to) /\ Called("moveRow", r - 1, to)

TableNext ==
    \/ MountTableEditor
    \/ Reparse
    \/ TableCellInput
    \/ TableHeaderInput
    \/ TableAddColumn
    \/ TableAddRow
    \/ TableRemoveColumn
    \/ TableRemoveRow
    \/ TableSetAlignment
    \/ TableMoveRow

SpecTable == TableInit /\ [][TableNext]_vars

\* C6: a structure parseMarkdownTable returned is returned again, with equal
\* headers, alignments and rows, when its serialization is parsed.
C6_TableRoundTrip ==
    pc = "reparsed" =>
        /\ res # NoData
        /\ res.headers = data.headers
        /\ res.alignments = data.alignments
        /\ res.rows = data.rows

\* a table with a right-aligned column and a data row went through the round trip
C6_Witness ==
    /\ pc = "reparsed"
    /\ res # NoData
    /\ \E c \in 1..Len(res.alignments) : res.alignments[c] = "right"
    /\ Len(res.rows) = 1

\* a TableEditor is showing a model
TableShown == pc \in {"parsed", "fallback", "reparsed"}

\* C7: in every Table Model state, parsed or mutated, there are as many
\* alignments as headers and every row has that many cells.
C7_TableRectangular ==
    TableShown =>
        /\ Len(data.alignments) = Len(data.headers)
        /\ \A r \in 1..Len(data.rows) : Len(data.rows[r]) = Len(data.headers)

\* C8: a table block's model has at least one data row, right after parsing
\* and after any sequence of mutations.
C8_TableHasDataRow == TableShown => Len(data.rows) >= 1

\* C9: a table-type block whose content has fewer than 2 non-blank lines is
\* treated as plain text: its TableEditor, which holds no table parsed from that
\* content, passes no table to onChange to replace it.
C9_NotATableKeepsContent == pc = "fallback" => lastOnChange = NoChange

----------------------------------------------------------------------------
(* HybridEditor inside App: the Block Store and its handlers *)

\* how many handler runs a behaviour of the editor makes
MaxSteps == 5

DocIds == {"d1", "d2"}

\* a mutant of IdxOf: an id that is absent counts as the last block's
IdxOfOrLast(bs, id) ==
    IF \E i \in 1..Len(bs) : bs[i].id = id
    THEN CHOOSE i \in 1..Len(bs) : bs[i].id = id /\ \A j \in 1..(i - 1) : bs[j].id # id
    ELSE Len(bs)

\* s.indexOf of a block id: its 1-based position, 0 when absent
IdxOf(bs, id) ==
    IF \E i \in 1..Len(bs) : bs[i].id = id
    THEN CHOOSE i \in 1..Len(bs) : bs[i].id = id /\ \A j \in 1..(i - 1) : bs[j].id # id
    ELSE 0

FocusIdx == IdxOf(blocks, focusedBlockId)

Mounted == activeFileId # NoFile /\ initialized

\* the focused block renders a textarea (EditorBlock with isFocused)
TextFocused == Mounted /\ FocusIdx > 0 /\ blocks[FocusIdx].type = "text"

\* the focused block renders a TableEditor
TableFocused == Mounted /\ FocusIdx > 0 /\ blocks[FocusIdx].type = "table"

isCodeBlock(content) == StartsWith(Trim(content), Fence)

\* a mutant of Resegments: the effect depends on content and runs on each change
ResegmentsOnContentChange(mounting, contentChanged, init) == mounting \/ contentChanged

\* whether a render runs the segmentation of the mount effect: its dependency
\* list is empty, and its body is guarded by the initialized ref
Resegments(mounting, contentChanged, init) == mounting /\ ~init

\* a mutant of DataAfter: setData is lost, the table model stays as it was
DataAfterStale(nb, nf, nd) ==
    LET i == IdxOf(nb, nf)
    IN  IF i = 0 \/ nb[i].type # "table" THEN NoData
        ELSE IF nf = focusedBlockId /\ data # NoData THEN data
        ELSE TableEditorInit(nb[i].content)

\* the TableEditor state after a render that shows blocks nb with focus nf:
\* kept (nd) while the same table block stays focused, initialized on mount
DataAfter(nb, nf, nd) ==
    LET i == IdxOf(nb, nf)
    IN  IF i = 0 \/ nb[i].type # "table" THEN NoData
        ELSE IF nf = focusedBlockId /\ data # NoData THEN nd
        ELSE TableEditorInit(nb[i].content)

\* a mutant of updateParent: the join of the blocks of the last render is passed on
updateParentStale(newBlocks) == JoinedContent(blocks)

\* updateParent(newBlocks): the string it passes to onChange
updateParent(newBlocks) == JoinedContent(newBlocks)

\* a mutant of setSelectionRange: the offset is taken as it is
setSelectionRangeAsGiven(value, start) == start

\* textarea.setSelectionRange(start, start) on a textarea holding value: an
\* offset beyond the end of the value counts as the end
setSelectionRange(value, start) == IF start > Len(value) THEN Len(value) ELSE start

\* the caret of the focused textarea after a render that shows blocks nb with
\* focus nf and cursor request nc. The layout effect of the focused EditorBlock
\* runs when its textarea is new or the request changed; otherwise the caret
\* stays, goes to the end when React writes a new value into the textarea, and
\* is wherever the user's own edit left it (NoOffset) after typing
SelectionAfter(nb, nf, nc, typed) ==
    LET i == IdxOf(nb, nf)
    IN  IF i = 0 \/ nb[i].type # "text" THEN NoOffset
        ELSE IF ~TextFocused \/ nf # focusedBlockId \/ nc # cursorOffset
        THEN IF nc = NoOffset THEN NoOffset ELSE setSelectionRange(nb[i].content, nc)
        ELSE IF nb[i].content = blocks[FocusIdx].content THEN selection
        ELSE IF typed THEN NoOffset
        ELSE Len(nb[i].content)

\* a handler replaced the blocks by nb and called updateParent(nb), which calls
\* onChange = updateContent with the joined content; updateContent writes it to
\* the document `to` that was active in the render the handler belongs to; the
\* editor renders again
EditCommitCore(to, nb, nf, nc, nid, nt, nq, nd, op, k) ==
    LET content == updateParent(nb)
        again   == Resegments(FALSE, TRUE, initialized)
        shown   == IF again THEN Segment(content, nid) ELSE nb
    IN  /\ blocks' = shown
        /\ nextId' = IF again THEN nid + Len(shown) ELSE nid
        /\ segRuns' = IF again THEN segRuns + 1 ELSE segRuns
        /\ focusedBlockId' = IF again THEN NoId ELSE nf
        /\ cursorOffset' = IF again THEN NoOffset ELSE nc
        /\ selection' = IF again THEN NoOffset ELSE SelectionAfter(shown, nf, nc,
                                                             op \in {"type", "pasteCode"})
        /\ caret' = k
        /\ timers' = nt
        /\ drops' = nq
        /\ data' = IF again THEN NoData ELSE DataAfter(shown, nf, nd)
        /\ lastOnChange' = content
        /\ files' = [files EXCEPT ![to] = content]
        /\ propagated' = [to |-> to, from |-> blocksDoc]
        /\ lastOp' = op
        /\ steps' = steps + 1
        /\ UNCHANGED <<activeFileId, editorKeyed, initialized, blocksDoc, composing>>
        /\ UNCHANGED <<harnessVars, saveVars>>

\* the same for every handler but the paste handler
EditCommitTo(to, nb, nf, nc, nid, nt, nq, nd, op, k) ==
    /\ EditCommitCore(to, nb, nf, nc, nid, nt, nq, nd, op, k)
    /\ pasted' = NoPaste

EditCommit(nb, nf, nc, nid, nt, nd, op, k) ==
    EditCommitTo(activeFileId, nb, nf, nc, nid, nt, drops, nd, op, k)

\* a handler only set the focused block and the cursor request
FocusCommit(nf, nc, nt, op, k) ==
    /\ focusedBlockId' = nf
    /\ cursorOffset' = nc
    /\ selection' = SelectionAfter(blocks, nf, nc, FALSE)
    /\ caret' = k
    /\ pasted' = NoPaste
    /\ timers' = nt
    /\ data' = DataAfter(blocks, nf, data)
    /\ lastOp' = op
    /\ steps' = steps + 1
    /\ UNCHANGED <<files, activeFileId, editorKeyed, blocks, initialized, nextId, drops,
                   lastOnChange, segRuns, blocksDoc, propagated, composing>>
    /\ UNCHANGED <<harnessVars, saveVars>>

Budget == steps < MaxSteps

\* selectFile(id) of useFileSystem, and the render of App that follows: the
\* editor mounts when no document was active, mounts afresh when its key
\* changes, and otherwise only receives the new content prop
SelectFile(id) ==
    /\ Budget
    /\ id \in DOMAIN files
    /\ id # activeFileId
    /\ activeFileId' = id
    /\ LET mounting == activeFileId = NoFile \/ editorKeyed
           init     == IF mounting THEN FALSE ELSE initialized
           again    == Resegments(mounting, TRUE, init)
           shown    == IF again THEN Segment(files[id], nextId) ELSE blocks
       IN  /\ blocks' = shown
           /\ nextId' = IF again THEN nextId + Len(shown) ELSE nextId
           /\ initialized' = (init \/ again)
           /\ segRuns' = IF mounting THEN (IF again THEN 1 ELSE 0)
                         ELSE IF again THEN segRuns + 1 ELSE segRuns
           /\ blocksDoc' = IF again THEN id ELSE blocksDoc
           /\ focusedBlockId' = IF mounting THEN NoId ELSE focusedBlockId
           /\ cursorOffset' = IF mounting THEN NoOffset ELSE cursorOffset
           /\ selection' = IF mounting THEN NoOffset ELSE selection
           /\ caret' = NoOffset
           /\ pasted' = NoPaste
           /\ composing' = IF mounting THEN {} ELSE composing
           /\ timers' = IF mounting THEN <<>> ELSE timers
           /\ drops' = IF mounting THEN <<>> ELSE drops
           /\ lastOnChange' = IF mounting THEN NoChange ELSE lastOnChange
           /\ data' = IF mounting THEN NoData ELSE DataAfter(shown, focusedBlockId, data)
    /\ lastOp' = "selectFile"
    /\ steps' = steps + 1
    /\ UNCHANGED <<files, editorKeyed, propagated>>
    /\ UNCHANGED <<harnessVars, saveVars>>

ClickOffsets == {0, 2}

\* handlePreviewClick(e, id): a click on the preview of an unfocused text block
ClickTextBlock(i, offset) ==
    /\ Budget /\ Mounted
    /\ i \in 1..Len(blocks)
    /\ blocks[i].type = "text"
    /\ blocks[i].id # focusedBlockId
    /\ FocusCommit(blocks[i].id, offset, timers, "click", NoOffset)

\* the onClick of a table block's wrapper: setFocusedBlockId(block.id)
ClickTableBlock(i) ==
    /\ Budget /\ Mounted
    /\ i \in 1..Len(blocks)
    /\ blocks[i].type = "table"
    /\ blocks[i].id # focusedBlockId
    /\ FocusCommit(blocks[i].id, cursorOffset, timers, "clickTable", NoOffset)

\* the onClick of the empty space below the blocks
ClickEmptySpace ==
    /\ Budget /\ Mounted
    /\ IF Len(blocks) > 0
       THEN LET lastBlock == blocks[Len(blocks)]
            IN  FocusCommit(lastBlock.id, Len(lastBlock.content), timers, "clickEmpty", NoOffset)
       ELSE LET newBlock == [id |-> nextId, content |-> <<>>, type |-> "text"]
            IN  EditCommit(<<newBlock>>, newBlock.id, 0, nextId + 1, timers, data,
                            "clickEmpty", NoOffset)

\* the oldest scheduled setTimeout(0) callback runs. One scheduled by the editor
\* calls setFocusedBlockId and setCursorOffset; one scheduled by the EditorBlock
\* of block id after Tab or Enter puts the caret at offset if that block still
\* has its textarea
FireTimer ==
    /\ Budget /\ Mounted
    /\ timers # <<>>
    /\ LET t == Head(timers)
       IN  IF t.kind = "focus"
           THEN FocusCommit(t.id, t.offset, Tail(timers), "timer", NoOffset)
           ELSE /\ selection' = IF TextFocused /\ focusedBlockId = t.id
                                THEN setSelectionRange(blocks[FocusIdx].content, t.offset)
                                ELSE selection
                /\ timers' = Tail(timers)
                /\ lastOp' = "caretTimer"
                /\ steps' = steps + 1
                /\ caret' = NoOffset
                /\ pasted' = NoPaste
                /\ UNCHANGED <<files, activeFileId, editorKeyed, blocks, focusedBlockId,
                               cursorOffset, composing, initialized, nextId, drops, data,
                               lastOnChange, segRuns, blocksDoc, propagated>>
                /\ UNCHANGED <<harnessVars, saveVars>>

\* an event that runs through its handler and meets none of its branches (a
\* keydown in handleKeyDown, an update whose setBlocks returns prev): only the
\* history of the model records it
KeyIgnored(op, k) ==
    /\ lastOp' = op
    /\ caret' = k
    /\ steps' = steps + 1
    /\ pasted' = NoPaste
    /\ UNCHANGED <<files, activeFileId, editorKeyed, blocks, focusedBlockId, cursorOffset,
                   selection,
                   composing, initialized, nextId, timers, drops, data, lastOnChange,
                   segRuns, blocksDoc, propagated>>
    /\ UNCHANGED <<harnessVars, saveVars>>

\* a mutant of shouldCreateNewBlock: the old content is not looked at
shouldCreateNewBlockWhenClosed(oldContent, newContent) ==
    /\ isCodeBlock(newContent)
    /\ CountFences(newContent) >= 2
    /\ EndsWith(Trim(newContent), Fence)

\* a mutant of shouldCreateNewBlock: the close of a code block is never detected
shouldCreateNewBlockNever(oldContent, newContent) == FALSE

\* the close-of-a-code-block test of updateBlockContent
shouldCreateNewBlock(oldContent, newContent) ==
    /\ isCodeBlock(newContent)
    /\ CountFences(oldContent) < 2
    /\ CountFences(newContent) >= 2
    /\ EndsWith(Trim(newContent), Fence)

\* updateBlockContent(id, newContent), called with the content a textarea or a
\* TableEditor reports; nd is the TableEditor state after the call, after the
\* callbacks that the caller schedules with setTimeout once onChange returned
updateBlockContent(id, newContent, nd, op, k, after) ==
    LET index == IdxOf(blocks, id)
    IN  IF index = 0 THEN KeyIgnored(op, k)
        ELSE LET currentBlock == blocks[index]
                 create       == shouldCreateNewBlock(currentBlock.content, newContent)
                 newBlock     == [id |-> nextId, content |-> <<>>, type |-> "text"]
                 changed      == [blocks EXCEPT ![index].content = newContent]
                 newBlocks    == IF create
                                 THEN SubSeq(changed, 1, index) \o <<newBlock>>
                                      \o SubSeq(changed, index + 1, Len(changed))
                                 ELSE changed
             IN  EditCommit(newBlocks, focusedBlockId, cursorOffset,
                            IF create THEN nextId + 1 ELSE nextId,
                            IF create
                            THEN Append(timers, [kind |-> "focus", id |-> newBlock.id,
                                                 offset |-> 0]) \o after
                            ELSE timers \o after,
                            nd, op, k)

\* what the user leaves in the focused textarea by typing or deleting
TypedContents ==
    { <<>>, <<"a">>, <<PIPE, "a", PIPE>>, <<PIPE, PIPE>>, Fence, Fence \o Fence }

\* the textarea's onChange
TypeContent(v) ==
    /\ Budget /\ TextFocused
    /\ v # blocks[FocusIdx].content
    /\ updateBlockContent(focusedBlockId, v, data, "type", NoOffset, <<>>)

\* a mutant of isComposing: the composition state is not consulted
isComposingNever == FALSE

\* the test handleKeyDownWrapper starts with, for a key event the browser does not
\* flag as composing: the isComposing ref of the focused block's EditorBlock
isComposing == focusedBlockId \in composing

\* where the caret of a textarea holding content c is put by the user
Carets(c) == {k \in {0, 1, Len(c)} : k <= Len(c)}

FocusedContent == IF FocusIdx > 0 THEN blocks[FocusIdx].content ELSE <<>>

\* value.lastIndexOf(c, from): the last occurrence at or before from, a negative
\* from counting as 0; -1 when there is none (0-based)
lastIndexOf(value, c, from) ==
    LET upto == IF from < 0 THEN 0 ELSE from
        hits == {i \in 0..(Len(value) - 1) : i <= upto /\ value[i + 1] = c}
    IN  IF hits = {} THEN -1 ELSE CHOOSE i \in hits : \A j \in hits : j <= i

\* s.match(/^(\s*)/)[1]
RECURSIVE LeadingWhitespace(_)
LeadingWhitespace(s) ==
    IF s = <<>> \/ Head(s) \notin Whitespace THEN <<>>
    ELSE <<Head(s)>> \o LeadingWhitespace(Tail(s))

\* handleKeyDownWrapper, Enter in a code block: a line break and the indentation
\* of the current line replace the selection
CodeEnterValue(content, start, end) ==
    LET lineStart           == lastIndexOf(content, NL, start - 1) + 1
        currentLineToCursor == Substring(content, lineStart, start)
        insertion           == <<NL>> \o LeadingWhitespace(currentLineToCursor)
    IN  Substring(content, 0, start) \o insertion \o SubstringFrom(content, end)

\* a mutant of CodeTabValue: two spaces are inserted
CodeTabValueTwoSpaces(content, start, end) ==
    Substring(content, 0, start) \o <<SP, SP>> \o SubstringFrom(content, end)

\* handleKeyDownWrapper, Tab in a code block: four spaces replace the selection
CodeTabValue(content, start, end) ==
    Substring(content, 0, start) \o <<SP, SP, SP, SP>> \o SubstringFrom(content, end)

\* a mutant of NonEmpty: strings of white space go as well
NonBlankOnly(arr) == SelectSeq(arr, LAMBDA x : Trim(x) # <<>>)

\* arr.filter(s => s) on strings: the empty ones go
RECURSIVE NonEmpty(_)
NonEmpty(arr) ==
    IF arr = <<>> THEN <<>>
    ELSE IF Head(arr) = <<>> THEN NonEmpty(Tail(arr))
    ELSE <<Head(arr)>> \o NonEmpty(Tail(arr))

\* the header cells that Enter reads off a table-trigger row
TriggerHeaders(content) ==
    LET cells == NonEmpty(Split(Trim(content), PIPE))
    IN  [i \in 1..Len(cells) |-> Trim(cells[i])]

isTableTrigger(block) ==
    /\ block.type = "text"
    /\ StartsWith(Trim(block.content), <<PIPE>>)
    /\ CountChar(block.content, PIPE) >= 2
    /\ Len(TriggerHeaders(block.content)) > 0

\* a mutant of tableMd: the table has no data row
tableMdNoDataRow(headers) ==
    <<PIPE, SP>> \o Join(headers, <<SP, PIPE, SP>>) \o <<SP, PIPE, NL>>
    \o <<PIPE, SP>> \o Join([i \in 1..Len(headers) |-> <<"-", "-", "-">>], <<SP, PIPE, SP>>)
    \o <<SP, PIPE>>

\* the three-line table that replaces a table-trigger row
tableMd(headers) ==
    LET delimiterRow == Join([i \in 1..Len(headers) |-> <<"-", "-", "-">>], <<SP, PIPE, SP>>)
        firstRow     == Join([i \in 1..Len(headers) |-> <<SP>>], <<SP, PIPE, SP>>)
    IN  <<PIPE, SP>> \o Join(headers, <<SP, PIPE, SP>>) \o <<SP, PIPE, NL>>
        \o <<PIPE, SP>> \o delimiterRow \o <<SP, PIPE, NL>>
        \o <<PIPE, SP>> \o firstRow \o <<SP, PIPE>>

\* arr.splice(at, 0, v) on blocks, at 0-based
\* a mutant of InsertAt: the block goes in front
InsertAtFront(bs, at, b) == <<b>> \o bs

InsertAt(bs, at, b) == SubSeq(bs, 1, at) \o <<b>> \o SubSeq(bs, at + 1, Len(bs))

\* Enter without Shift and outside IME composition, caret (collapsed) at k
KeyEnter(k) ==
    /\ Budget /\ TextFocused /\ ~isComposing
    /\ LET index        == FocusIdx - 1
           currentBlock == blocks[FocusIdx]
           fresh        == [id |-> nextId, content |-> <<>>, type |-> "text"]
       IN  /\ k \in Carets(currentBlock.content)
           /\ IF isCodeBlock(currentBlock.content)
              THEN LET newValue == CodeEnterValue(currentBlock.content, k, k)
                       insertion == Len(newValue) - Len(currentBlock.content)
                   IN  updateBlockContent(currentBlock.id, newValue, data, "enterCode", k,
                                          << [kind |-> "caret", id |-> currentBlock.id,
                                              offset |-> k + insertion] >>)
              ELSE IF isTableTrigger(currentBlock)
              THEN LET converted == [currentBlock EXCEPT
                                        !.content = tableMd(TriggerHeaders(currentBlock.content)),
                                        !.type = "table"]
                   IN  EditCommit(InsertAt([blocks EXCEPT ![FocusIdx] = converted],
                                           index + 1, fresh),
                                  focusedBlockId, cursorOffset, nextId + 1, timers, data,
                                  "enterTable", k)
              ELSE EditCommit(InsertAt(blocks, index + 1, fresh), fresh.id, 0, nextId + 1,
                              timers, data, "enter", k)

\* a mutant of BackspaceRemoves: the content of the block is not looked at
BackspaceRemovesNonEmpty(index, content) == index > 0

\* a mutant of BackspaceRemoves: the only block may go too
BackspaceRemovesAny(index, content) == content = <<>>

\* Backspace removes the block at index (0-based) when it is empty and not the first
BackspaceRemoves(index, content) == content = <<>> /\ index > 0

\* a mutant of WithoutId: every empty block goes along
WithoutIdOrEmpty(bs, id) ==
    LET keep == {i \in 1..Len(bs) : bs[i].id # id /\ bs[i].content # <<>>}
        nth[k \in 1..Cardinality(keep)] ==
            CHOOSE i \in keep : Cardinality({j \in keep : j <= i}) = k
    IN  [k \in 1..Cardinality(keep) |-> bs[nth[k]]]

\* prev.filter(b => b.id !== id)
RECURSIVE WithoutId(_, _)
WithoutId(bs, id) ==
    IF bs = <<>> THEN <<>>
    ELSE IF Head(bs).id = id THEN WithoutId(Tail(bs), id)
    ELSE <<Head(bs)>> \o WithoutId(Tail(bs), id)

\* Backspace in an empty block
KeyBackspace ==
    /\ Budget /\ TextFocused /\ ~isComposing
    /\ BackspaceRemoves(FocusIdx - 1, blocks[FocusIdx].content)
    /\ LET newBlocks == WithoutId(blocks, focusedBlockId)
       IN  IF FocusIdx > 1
           THEN LET prevBlock == blocks[FocusIdx - 1]
                IN  EditCommit(newBlocks, prevBlock.id, Len(prevBlock.content), nextId,
                               timers, data, "backspace", 0)
           ELSE EditCommit(newBlocks, focusedBlockId, cursorOffset, nextId, timers, data,
                           "backspace", 0)

\* Tab in a code block, caret (collapsed) at k
KeyTab(k) ==
    /\ Budget /\ TextFocused /\ ~isComposing
    /\ isCodeBlock(blocks[FocusIdx].content)
    /\ k \in Carets(blocks[FocusIdx].content)
    /\ updateBlockContent(focusedBlockId, CodeTabValue(blocks[FocusIdx].content, k, k),
                          data, "tab", k,
                          << [kind |-> "caret", id |-> focusedBlockId, offset |-> k + 4] >>)

\* ArrowUp with the caret on the first line of a block that is not the first
KeyArrowUp(k) ==
    /\ Budget /\ TextFocused /\ ~isComposing
    /\ FocusIdx - 1 > 0
    /\ k \in Carets(blocks[FocusIdx].content)
    /\ Len(Split(Substring(blocks[FocusIdx].content, 0, k), NL)) = 1
    /\ LET prevBlock == blocks[FocusIdx - 1]
       IN  FocusCommit(prevBlock.id, Len(prevBlock.content), timers, "arrowUp", k)

\* a mutant of KeyArrowDown: the cursor request keeps its offset
KeyArrowDownKeepsOffset(k) ==
    /\ Budget /\ TextFocused /\ ~isComposing
    /\ FocusIdx - 1 < Len(blocks) - 1
    /\ k \in Carets(blocks[FocusIdx].content)
    /\ Len(Split(SubstringFrom(blocks[FocusIdx].content, k), NL)) = 1
    /\ FocusCommit(blocks[FocusIdx + 1].id, cursorOffset, timers, "arrowDown", k)

\* ArrowDown with the caret on the last line of a block that is not the last
KeyArrowDown(k) ==
    /\ Budget /\ TextFocused /\ ~isComposing
    /\ FocusIdx - 1 < Len(blocks) - 1
    /\ k \in Carets(blocks[FocusIdx].content)
    /\ Len(Split(SubstringFrom(blocks[FocusIdx].content, k), NL)) = 1
    /\ FocusCommit(blocks[FocusIdx + 1].id, 0, timers, "arrowDown", k)

\* what the clipboard holds when the user pastes several lines
PasteTexts == { <<"x", NL, "y">>, <<NL>>, <<"x", NL, PIPE, NL, "z">> }

\* handlePaste of EditorBlock and handleBlockPaste: multi-line text pasted over
\* the selection [selectionStart, selectionEnd) of a block that is no code block
Paste(text, selectionStart, selectionEnd) ==
    /\ Budget /\ TextFocused
    /\ ~isCodeBlock(blocks[FocusIdx].content)
    /\ CountChar(text, NL) > 0
    /\ selectionStart \in Carets(blocks[FocusIdx].content)
    /\ selectionEnd \in Carets(blocks[FocusIdx].content)
    /\ selectionStart <= selectionEnd
    /\ LET index        == FocusIdx - 1
           currentBlock == blocks[FocusIdx]
           beforeCursor == Substring(currentBlock.content, 0, selectionStart)
           afterCursor  == SubstringFrom(currentBlock.content, selectionEnd)
           lines        == SplitLines(text)
           n            == Len(lines)
           lastLine     == lines[n]
           newBlocks    ==
               [j \in 1..n |->
                   IF j = 1 THEN [currentBlock EXCEPT !.content = beforeCursor \o lines[1]]
                   ELSE IF j < n
                   THEN [id |-> nextId + j - 2, content |-> lines[j], type |-> "text"]
                   ELSE [id |-> nextId + n - 2, content |-> lastLine \o afterCursor,
                         type |-> "text"]]
           updated      == SubSeq(blocks, 1, index) \o newBlocks
                           \o SubSeq(blocks, index + 2, Len(blocks))
       IN  /\ EditCommitCore(activeFileId, updated, focusedBlockId, cursorOffset,
                              nextId + n - 1,
                              Append(timers, [kind |-> "focus", id |-> nextId + n - 2,
                                              offset |-> Len(lastLine)]),
                              drops, data, "paste", selectionStart)
           /\ pasted' = [text |-> text, end |-> selectionEnd]

\* the Markdown image that a dropped image file becomes; "d" is its data URL
ImageMd == <<"!", "[", "I", "]", "(", "d", ")">>

\* handleContainerDrop up to its await: the encoding of the image starts
DropImage ==
    /\ Budget /\ Mounted
    /\ drops' = Append(drops, activeFileId)
    /\ pasted' = NoPaste
    /\ lastOp' = "dropStart"
    /\ steps' = steps + 1
    /\ UNCHANGED <<files, activeFileId, editorKeyed, blocks, focusedBlockId, cursorOffset,
                   selection,
                   caret, composing, initialized, nextId, timers, data, lastOnChange, segRuns,
                   blocksDoc, propagated>>
    /\ UNCHANGED <<harnessVars, saveVars>>

\* a mutant of DropComplete: the new block goes before the others
DropCompletePrepends(i, ok) ==
    /\ Budget /\ Mounted
    /\ i \in 1..Len(drops)
    /\ LET rest     == SubSeq(drops, 1, i - 1) \o SubSeq(drops, i + 1, Len(drops))
           newBlock == [id |-> nextId, content |-> ImageMd, type |-> "text"]
       IN  IF ok
           THEN EditCommitTo(drops[i], <<newBlock>> \o blocks, newBlock.id, 0, nextId + 1,
                             timers, rest, data, "drop", NoOffset)
           ELSE /\ drops' = rest
                /\ pasted' = NoPaste
                /\ lastOp' = "dropFailed"
                /\ steps' = steps + 1
                /\ UNCHANGED <<files, activeFileId, editorKeyed, blocks, focusedBlockId,
                               cursorOffset,
                               selection, caret, composing, initialized, nextId, timers,
                               data,
                               lastOnChange, segRuns, blocksDoc, propagated>>
                /\ UNCHANGED <<harnessVars, saveVars>>

\* handleContainerDrop after its await: the encoding of drop i ended, well or not
DropComplete(i, ok) ==
    /\ Budget /\ Mounted
    /\ i \in 1..Len(drops)
    /\ LET rest     == SubSeq(drops, 1, i - 1) \o SubSeq(drops, i + 1, Len(drops))
           newBlock == [id |-> nextId, content |-> ImageMd, type |-> "text"]
       IN  IF ok
           THEN EditCommitTo(drops[i], Append(blocks, newBlock), newBlock.id, 0, nextId + 1,
                             timers, rest, data, "drop", NoOffset)
           ELSE /\ drops' = rest
                /\ pasted' = NoPaste
                /\ lastOp' = "dropFailed"
                /\ steps' = steps + 1
                /\ UNCHANGED <<files, activeFileId, editorKeyed, blocks, focusedBlockId,
                               cursorOffset,
                               selection, caret, composing, initialized, nextId, timers,
                               data,
                               lastOnChange, segRuns, blocksDoc, propagated>>
                /\ UNCHANGED <<harnessVars, saveVars>>

\* the table models that one use of a control of the rendered TableEditor
\* produces from d and hands to updateMarkdown
TableOutcomes(d) ==
    {CellChanged(d, r - 1, c - 1, v) :
        <<r, c, v>> \in {t \in (1..Len(d.rows)) \X (1..Len(d.headers)) \X CellValues :
                            t[2] <= Len(d.rows[t[1]])}}
    \cup {CellChanged(d, -1, c - 1, v) : <<c, v>> \in (1..Len(d.headers)) \X CellValues}
    \cup {ColumnAdded(d, Len(d.headers) - 1), RowAdded(d, Len(d.rows) - 1)}
    \cup {ColumnRemoved(d, c - 1) : c \in {x \in 1..Len(d.headers) : Len(d.headers) > 1}}
    \cup {RowRemoved(d, r - 1) : r \in 1..Len(d.rows)}
    \cup {AlignmentSet(d, c - 1, a) : <<c, a>> \in (1..Len(d.headers)) \X Alignments}
    \cup {RowMoved(d, t[1] - 1, t[2] - 1) :
            t \in {u \in (1..Len(d.rows)) \X (1..Len(d.rows)) :
                      u[2] = u[1] - 1 \/ u[2] = u[1] + 1}}

\* the TableEditor of the focused table block reports a change: its onChange is
\* (val) => updateBlockContent(block.id, val)
TableEdit(newData) ==
    /\ Budget /\ TableFocused
    /\ newData \in TableOutcomes(data)
    /\ newData # data
    /\ updateBlockContent(focusedBlockId,
                          serializeTable(newData.headers, newData.alignments, newData.rows),
                          newData, "table", NoOffset, <<>>)

\* the documents the file system hook holds once a folder is loaded
InitialDocs ==
    { <<>>,
      <<"a", "b">>,
      <<PIPE, "a", PIPE>>,
      Fence \o <<NL, SP, "x">>,
      <<PIPE, "a", PIPE, NL, PIPE, "-", PIPE, NL, PIPE, "1", PIPE>> }

Init ==
    /\ \E c \in InitialDocs : files = [d \in DocIds |-> IF d = "d1" THEN c ELSE <<"b">>]
    /\ activeFileId = NoFile
    /\ editorKeyed \in BOOLEAN
    /\ blocks = <<>>
    /\ focusedBlockId = NoId
    /\ cursorOffset = NoOffset
    /\ selection = NoOffset
    /\ caret = NoOffset
    /\ pasted = NoPaste
    /\ composing = {}
    /\ initialized = FALSE
    /\ nextId = 1
    /\ timers = <<>>
    /\ drops = <<>>
    /\ data = NoData
    /\ lastOnChange = NoChange
    /\ segRuns = 0
    /\ blocksDoc = NoFile
    /\ propagated = NoPropagation
    /\ lastOp = "none"
    /\ steps = 0
    /\ arg = <<>>
    /\ res = <<>>
    /\ pc = "editor"
    /\ call = NoCall
    /\ StoreIdle
    /\ hasHandle = TRUE

Next ==
    \/ \E id \in DocIds : SelectFile(id)
    \/ \E i \in 1..Len(blocks) : \E offset \in ClickOffsets : ClickTextBlock(i, offset)
    \/ \E i \in 1..Len(blocks) : ClickTableBlock(i)
    \/ ClickEmptySpace
    \/ FireTimer
    \/ \E v \in TypedContents : TypeContent(v)
    \/ \E k \in Carets(FocusedContent) : KeyEnter(k)
    \/ KeyBackspace
    \/ \E k \in Carets(FocusedContent) : KeyTab(k)
    \/ \E k \in Carets(FocusedContent) : KeyArrowUp(k)
    \/ \E k \in Carets(FocusedContent) : KeyArrowDown(k)
    \/ \E text \in PasteTexts : \E s, e \in Carets(FocusedContent) : Paste(text, s, e)
    \/ DropImage
    \/ \E i \in 1..Len(drops) : \E ok \in BOOLEAN : DropComplete(i, ok)
    \/ \E newData \in (IF TableFocused THEN TableOutcomes(data) ELSE {}) : TableEdit(newData)

Spec == Init /\ [][Next]_vars

\* onCompositionStart (start) and onCompositionEnd (~start) of the focused textarea
CompositionEvent(start) ==
    /\ Budget /\ TextFocused
    /\ start = ~isComposing
    /\ composing' = IF start THEN composing \cup {focusedBlockId}
                    ELSE composing \ {focusedBlockId}
    /\ lastOp' = IF start THEN "compositionStart" ELSE "compositionEnd"
    /\ steps' = steps + 1
    /\ pasted' = NoPaste
    /\ UNCHANGED <<files, activeFileId, editorKeyed, blocks, focusedBlockId, cursorOffset,
                   selection,
                   caret, initialized, nextId, timers, drops, data, lastOnChange, segRuns,
                   blocksDoc, propagated>>
    /\ UNCHANGED <<harnessVars, saveVars>>

\* a keydown (Enter, Backspace, Tab, ArrowUp, ArrowDown) in the focused textarea
\* while its isComposing ref is set or the event itself reports isComposing:
\* handleKeyDownWrapper returns at once
KeyDownComposing(eventIsComposing) ==
    /\ Budget /\ TextFocused
    /\ isComposing \/ eventIsComposing
    /\ lastOp' = "keyIgnored"
    /\ steps' = steps + 1
    /\ pasted' = NoPaste
    /\ UNCHANGED <<files, activeFileId, editorKeyed, blocks, focusedBlockId, cursorOffset,
                   selection,
                   caret, composing, initialized, nextId, timers, drops, data, lastOnChange,
                   segRuns, blocksDoc, propagated>>
    /\ UNCHANGED <<harnessVars, saveVars>>

\* Backspace in a block that is not empty, or in the first block
KeyBackspaceIgnored(k) ==
    /\ Budget /\ TextFocused /\ ~isComposing
    /\ k \in Carets(blocks[FocusIdx].content)
    /\ ~BackspaceRemoves(FocusIdx - 1, blocks[FocusIdx].content)
    /\ KeyIgnored("backspaceIgnored", k)

\* ArrowUp in the first block or below the first line of a block, ArrowDown in
\* the last block or above the last line of a block
KeyArrowIgnored(up, k) ==
    /\ Budget /\ TextFocused /\ ~isComposing
    /\ k \in Carets(blocks[FocusIdx].content)
    /\ IF up
       THEN ~(/\ FocusIdx - 1 > 0
              /\ Len(Split(Substring(blocks[FocusIdx].content, 0, k), NL)) = 1)
       ELSE ~(/\ FocusIdx - 1 < Len(blocks) - 1
              /\ Len(Split(SubstringFrom(blocks[FocusIdx].content, k), NL)) = 1)
    /\ KeyIgnored(IF up THEN "arrowUpIgnored" ELSE "arrowDownIgnored", k)

\* the editor of the App with key on a document of text or of code, typed in
\* with an input method
ImeInit ==
    /\ Init
    /\ editorKeyed
    /\ files["d1"] \in { <<"a", "b">>, Fence \o <<NL, SP, "x">> }

ImeNext ==
    \/ \E id \in DocIds : SelectFile(id)
    \/ \E i \in 1..Len(blocks) : \E offset \in ClickOffsets : ClickTextBlock(i, offset)
    \/ \E v \in TypedContents : TypeContent(v)
    \/ \E k \in Carets(FocusedContent) : KeyEnter(k)
    \/ KeyBackspace
    \/ \E k \in Carets(FocusedContent) : KeyTab(k)
    \/ \E k \in Carets(FocusedContent) : KeyArrowUp(k)
    \/ \E k \in Carets(FocusedContent) : KeyArrowDown(k)
    \/ \E start \in BOOLEAN : CompositionEvent(start)
    \/ \E eventIsComposing \in BOOLEAN : KeyDownComposing(eventIsComposing)
    \/ \E k \in Carets(FocusedContent) : KeyBackspaceIgnored(k)
    \/ \E up \in BOOLEAN : \E k \in Carets(FocusedContent) : KeyArrowIgnored(up, k)

SpecIme == ImeInit /\ [][ImeNext]_vars

\* how far back the random generator may reach
MaxRandomId == 3

\* generateId is Math.random().toString(36).substr(2, 9): nothing keeps the
\* generator from returning a string it returned before. Spec takes the ids to be
\* handed out without repetition; here the next value may be any early one.
MathRandom ==
    /\ nextId' \in (1..MaxRandomId) \ {nextId}
    /\ UNCHANGED <<files, activeFileId, editorKeyed, blocks, focusedBlockId, cursorOffset,
                   selection,
                   caret, pasted, composing, initialized, timers, drops, data, lastOnChange,
                   segRuns, blocksDoc, propagated, lastOp, steps>>
    /\ UNCHANGED <<harnessVars, saveVars>>

\* the editor of the App with key on a document of one line
IdsInit ==
    /\ Init
    /\ editorKeyed
    /\ files["d1"] = <<"a", "b">>

IdsNext ==
    \/ \E id \in DocIds : SelectFile(id)
    \/ \E i \in 1..Len(blocks) : \E offset \in ClickOffsets : ClickTextBlock(i, offset)
    \/ \E k \in Carets(FocusedContent) : KeyEnter(k)
    \/ KeyBackspace
    \/ MathRandom

SpecIds == IdsInit /\ [][IdsNext]_vars

\* what the clipboard holds in the runs that follow the focus: lines closed by
\* a line feed, by a carriage return and a line feed, or by both kinds
FocusPasteTexts == { <<NL>>, <<"x", CR, NL, CR, "y">> }

\* what the clipboard holds when the user pastes several lines into a code block
CodePasteTexts == { <<"x", NL, "y">>, <<NL>> \o Fence }

\* a mutant of PasteIntoCode: the text goes to the start of the block
PasteIntoCodeAtStart(text, selectionStart, selectionEnd) ==
    /\ Budget /\ TextFocused
    /\ isCodeBlock(blocks[FocusIdx].content)
    /\ selectionStart \in Carets(blocks[FocusIdx].content)
    /\ selectionEnd \in Carets(blocks[FocusIdx].content)
    /\ selectionStart <= selectionEnd
    /\ updateBlockContent(focusedBlockId, text \o blocks[FocusIdx].content, data,
                          "pasteCode", selectionStart, <<>>)

\* the paste event in the textarea of a code block: handlePaste of EditorBlock
\* leaves it to the browser, which replaces the selection by the text and
\* reports the new value through onChange
PasteIntoCode(text, selectionStart, selectionEnd) ==
    /\ Budget /\ TextFocused
    /\ isCodeBlock(blocks[FocusIdx].content)
    /\ selectionStart \in Carets(blocks[FocusIdx].content)
    /\ selectionEnd \in Carets(blocks[FocusIdx].content)
    /\ selectionStart <= selectionEnd
    /\ LET value == Substring(blocks[FocusIdx].content, 0, selectionStart) \o text
                    \o SubstringFrom(blocks[FocusIdx].content, selectionEnd)
       IN  updateBlockContent(focusedBlockId, value, data, "pasteCode", selectionStart, <<>>)

\* updateBlockContent runs for a block that left the sequence: the change event
\* of a block removed since the render its handler belongs to
StaleUpdate(id, v) ==
    /\ Budget /\ Mounted
    /\ id \in 1..(nextId - 1)
    /\ IdxOf(blocks, id) = 0
    /\ updateBlockContent(id, v, data, "staleUpdate", NoOffset, <<>>)

\* the editor of the App with key, mounted on document d1 with content c, after
\* a click at the start of its first block
MountedOn(c) ==
    /\ files = [d \in DocIds |-> IF d = "d1" THEN c ELSE <<"b">>]
    /\ activeFileId = "d1"
    /\ editorKeyed = TRUE
    /\ blocks = Segment(c, 1)
    /\ focusedBlockId = blocks[1].id
    /\ cursorOffset = 0
    /\ selection = 0
    /\ caret = NoOffset
    /\ pasted = NoPaste
    /\ composing = {}
    /\ initialized = TRUE
    /\ nextId = 1 + Len(blocks)
    /\ timers = <<>>
    /\ drops = <<>>
    /\ data = NoData
    /\ lastOnChange = NoChange
    /\ segRuns = 1
    /\ blocksDoc = "d1"
    /\ propagated = NoPropagation
    /\ lastOp = "click"
    /\ steps = 0
    /\ arg = <<>>
    /\ res = <<>>
    /\ pc = "editor"
    /\ call = NoCall
    /\ StoreIdle
    /\ hasHandle = TRUE

\* the documents of the runs that follow the focus: empty, text, an open code block
FocusDocs == { <<>>, <<"a", "b">>, Fence \o <<NL, SP, "x">> }

FocusInit == \E c \in FocusDocs : MountedOn(c)

FocusNext ==
    \/ \E i \in 1..Len(blocks) : \E offset \in ClickOffsets : ClickTextBlock(i, offset)
    \/ FireTimer
    \/ \E v \in {<<>>, Fence \o Fence} : TypeContent(v)
    \/ \E k \in Carets(FocusedContent) : KeyEnter(k)
    \/ KeyBackspace
    \/ \E k \in Carets(FocusedContent) : KeyArrowUp(k)
    \/ \E k \in Carets(FocusedContent) : KeyArrowDown(k)
    \/ \E text \in FocusPasteTexts : \E s, e \in Carets(FocusedContent) : Paste(text, s, e)
    \/ \E text \in CodePasteTexts : \E s, e \in Carets(FocusedContent) :
          PasteIntoCode(text, s, e)
    \/ \E id \in 1..(nextId - 1) : StaleUpdate(id, <<"a">>)
    \/ DropImage
    \/ \E i \in 1..Len(drops) : \E ok \in BOOLEAN : DropComplete(i, ok)

SpecFocus == FocusInit /\ [][FocusNext]_vars

\* what the user types into a block to get a table: rows with a blank between
\* the first two pipes, with nothing between them, and a plain row
TriggerRows ==
    { <<PIPE, SP, PIPE, SP, "b", SP, PIPE>>, <<PIPE, PIPE, "b", PIPE>>, <<PIPE, "a", PIPE>>,
      <<>> }

TriggerInit == \E c \in { <<>>, <<"a", "b">> } : MountedOn(c)

TriggerNext ==
    \/ \E i \in 1..Len(blocks) : \E offset \in ClickOffsets : ClickTextBlock(i, offset)
    \/ \E i \in 1..Len(blocks) : ClickTableBlock(i)
    \/ \E v \in TriggerRows : TypeContent(v)
    \/ \E k \in Carets(FocusedContent) : KeyEnter(k)
    \/ KeyBackspace
    \/ \E k \in Carets(FocusedContent) : KeyArrowUp(k)
    \/ \E k \in Carets(FocusedContent) : KeyArrowDown(k)

SpecTrigger == TriggerInit /\ [][TriggerNext]_vars

\* what the editor passes to updateContent
SaveContents == { <<>>, <<"a">>, <<"a", "b">> }

\* the file system hook with two documents loaded, as files of a folder or as
\* entries of LocalStorage; the editor is left out, its onChange calls are the
\* inputs
SaveInit ==
    /\ files = [d \in DocIds |-> IF d = "d1" THEN <<"a">> ELSE <<"b">>]
    /\ activeFileId = NoFile
    /\ editorKeyed = TRUE
    /\ blocks = <<>>
    /\ focusedBlockId = NoId
    /\ cursorOffset = NoOffset
    /\ selection = NoOffset
    /\ caret = NoOffset
    /\ pasted = NoPaste
    /\ composing = {}
    /\ initialized = FALSE
    /\ nextId = 1
    /\ timers = <<>>
    /\ drops = <<>>
    /\ data = NoData
    /\ lastOnChange = NoChange
    /\ segRuns = 0
    /\ blocksDoc = NoFile
    /\ propagated = NoPropagation
    /\ lastOp = "none"
    /\ steps = 0
    /\ arg = <<>>
    /\ res = <<>>
    /\ pc = "editor"
    /\ call = NoCall
    /\ StoreIdle
    /\ hasHandle \in BOOLEAN

\* selectFile(id) as the hook sees it: setActiveFileId(id)
OpenFile(id) ==
    /\ id \in DOMAIN files
    /\ id # activeFileId
    /\ activeFileId' = id
    /\ lastOp' = "openFile"
    /\ UNCHANGED <<files, editorKeyed, blocks, focusedBlockId, cursorOffset, selection, caret,
                   pasted, composing, initialized, nextId, timers, drops, data, lastOnChange,
                   segRuns, blocksDoc, propagated, steps>>
    /\ UNCHANGED <<harnessVars, saveVars>>

\* updateContent(content): the active document takes the content, the status
\* becomes 'saving', the callback that autoSaveTimerRef holds is cleared and a
\* new one is scheduled for the active document
updateContent(content) ==
    /\ activeFileId # NoFile
    /\ files' = [files EXCEPT ![activeFileId] = content]
    /\ saveStatus' = "saving"
    /\ autoSaveTimer' = [targetId |-> activeFileId, content |-> content]
    /\ lastOp' = "updateContent"
    /\ UNCHANGED <<activeFileId, editorKeyed, blocks, focusedBlockId, cursorOffset, selection,
                   caret, pasted, composing, initialized, nextId, timers, drops, data,
                   lastOnChange, segRuns, blocksDoc, propagated, steps>>
    /\ UNCHANGED <<harnessVars, stored, hasHandle>>

\* the auto-save callback runs AUTO_SAVE_DELAY after it was scheduled:
\* persistFile(targetId, content). With a handle the content is written to the
\* file, and a write that throws sets the status 'unsaved'; without one the whole
\* file list, the target with the content, goes to saveFiles, which catches what
\* localStorage.setItem throws, and the status is set to 'saved' either way
persistFile(ok) ==
    /\ autoSaveTimer # NoSave
    /\ autoSaveTimer' = NoSave
    /\ LET fileId  == autoSaveTimer.targetId
           content == autoSaveTimer.content
           updated == [d \in DOMAIN files |-> IF d = fileId THEN content ELSE files[d]]
       IN  IF hasHandle
           THEN /\ stored' = IF ok THEN [stored EXCEPT ![fileId] = content] ELSE stored
                /\ saveStatus' = IF ok THEN "saved" ELSE "unsaved"
           ELSE /\ stored' = IF ok THEN updated ELSE stored
                /\ saveStatus' = "saved"
    /\ lastOp' = IF ok THEN "persisted" ELSE "persistFailed"
    /\ UNCHANGED <<files, activeFileId, editorKeyed, blocks, focusedBlockId, cursorOffset,
                   selection, caret, pasted, composing, initialized, nextId, timers, drops,
                   data, lastOnChange, segRuns, blocksDoc, propagated, steps>>
    /\ UNCHANGED <<harnessVars, hasHandle>>

SaveNext ==
    \/ \E id \in DocIds : OpenFile(id)
    \/ \E content \in SaveContents : updateContent(content)
    \/ \E ok \in BOOLEAN : persistFile(ok)

SpecSave == SaveInit /\ [][SaveNext]_vars

\* the same with a store that takes every write
SaveOkNext ==
    \/ \E id \in DocIds : OpenFile(id)
    \/ \E content \in SaveContents : updateContent(content)
    \/ persistFile(TRUE)

SpecSaveOk == SaveInit /\ [][SaveOkNext]_vars

\* C2: every step of the editor that changes the blocks, or passes a string to
\* onChange, leaves the string last passed to onChange equal to the contents of
\* the blocks joined with line breaks (the mount of an editor, which passes
\* nothing, aside).
C2_OnChangeIsJoin ==
    [][((blocks' # blocks \/ lastOnChange' # lastOnChange) /\ lastOp' # "selectFile")
          => lastOnChange' = JoinedContent(blocks')]_vars

C2_Witness ==
    /\ lastOp = "paste"
    /\ Len(blocks) = 4
    /\ lastOnChange = JoinedContent(blocks)
    /\ lastOnChange # files["d2"]

\* C3: once the segmentation has run, the block sequence holds at least one
\* block in every state that edit events reach; Backspace leaves the only block.
C3_AtLeastOneBlock == initialized => Len(blocks) >= 1

C3_Witness ==
    /\ lastOp = "backspace"
    /\ Len(blocks) = 1
    /\ blocks[1].content = <<>>
    /\ focusedBlockId = blocks[1].id

\* C4: in an editor instance the segmentation has run exactly once, whatever
\* edits and changes of the content prop followed the mount.
C4_SegmentedOnce == initialized => segRuns = 1

C4_Witness ==
    /\ segRuns = 1
    /\ lastOp = "type"
    /\ lastOnChange # NoChange
    /\ files[activeFileId] = lastOnChange
    /\ focusedBlockId # NoId
    /\ steps >= 4

\* C5: the joined content an edit passes on goes to the document that the
\* blocks were segmented from.
C5_EditsStayInDocument ==
    propagated # NoPropagation => propagated.to = propagated.from

\* the contents of a block sequence
Contents(bs) == [i \in 1..Len(bs) |-> bs[i].content]

\* C10: Enter in a focused text block that is neither a code block nor a
\* table-trigger row, caret at k, replaces the block of content c by two blocks
\* of contents c[0..k) and c[k..).
C10_EnterSplitsAtCaret ==
    [][lastOp' = "enter" =>
          LET c == blocks[FocusIdx].content
          IN  Contents(blocks') =
                  SubSeq(Contents(blocks), 1, FocusIdx - 1)
                  \o <<Substring(c, 0, caret'), SubstringFrom(c, caret')>>
                  \o SubSeq(Contents(blocks), FocusIdx + 1, Len(blocks))]_vars

\* the block sequence bs with the block at position idx (1-based) taken out
Without(bs, idx) == SubSeq(bs, 1, idx - 1) \o SubSeq(bs, idx + 1, Len(bs))

\* an Enter keydown (no Shift, no composition) has just been handled
EnterOps == {"enter", "enterTable", "enterCode"}

\* the block at position idx of bs became, in as, a table block of three lines
\* (the headers, one --- per header, one blank cell per header), followed by a
\* new empty text block, all other blocks being the same
ConvertedToTable(bs, idx, as, headers) ==
    /\ Len(as) = Len(bs) + 1
    /\ as[idx].id = bs[idx].id
    /\ as[idx].type = "table"
    /\ LET ls == Split(as[idx].content, NL)
       IN  /\ Len(ls) = 3
           /\ parseRow(ls[1]) = headers
           /\ parseRow(ls[2]) = [i \in 1..Len(headers) |-> <<"-", "-", "-">>]
           /\ parseRow(ls[3]) = [i \in 1..Len(headers) |-> <<>>]
    /\ as[idx + 1].content = <<>>
    /\ as[idx + 1].type = "text"
    /\ \A j \in 1..Len(bs) : bs[j].id # as[idx + 1].id
    /\ Without(Without(as, idx + 1), idx) = Without(bs, idx)

C12_BackspaceRemovesEmptyBlock ==
    [][(lastOp' = "backspace" /\ FocusIdx > 1 /\ FocusedContent = <<>>)
          => /\ blocks' = Without(blocks, FocusIdx)
             /\ focusedBlockId' = blocks[FocusIdx - 1].id
             /\ cursorOffset' = Len(blocks[FocusIdx - 1].content)]_vars

C12_Witness ==
    /\ lastOp = "backspace"
    /\ Len(blocks) = 2
    /\ focusedBlockId = blocks[2].id
    /\ cursorOffset = Len(blocks[2].content)
    /\ cursorOffset > 0

\* C13: a paste of the lines l1..ln (n >= 2) over the selection [s, e) of a
\* focused non-code text block of content c replaces that block by n blocks:
\* the first, with the block's id, holds c[0..s) + l1, each middle line is a new
\* text block, the last holds ln + c[e..); the callback the paste schedules
\* focuses the last of them with the cursor request at the length of ln.
C13_PasteSplitsIntoBlocks ==
    [][/\ lastOp' = "paste" =>
            LET idx   == FocusIdx
                c     == FocusedContent
                lines == Split(pasted'.text, NL)
                n     == Len(lines)
                parts == [j \in 1..n |->
                            IF j = 1 THEN SubSeq(c, 1, caret') \o lines[1]
                            ELSE IF j = n THEN lines[n] \o SubSeq(c, pasted'.end + 1, Len(c))
                            ELSE lines[j]]
            IN  /\ n >= 2
                /\ Contents(blocks') = SubSeq(Contents(blocks), 1, idx - 1) \o parts
                                       \o SubSeq(Contents(blocks), idx + 1, Len(blocks))
                /\ SubSeq(blocks', 1, idx)
                       = SubSeq([blocks EXCEPT ![idx].content = parts[1]], 1, idx)
                /\ SubSeq(blocks', idx + n, Len(blocks')) = SubSeq(blocks, idx + 1, Len(blocks))
                /\ \A j \in (idx + 1)..(idx + n - 1) :
                      /\ blocks'[j].type = "text"
                      /\ \A i \in 1..Len(blocks) : blocks[i].id # blocks'[j].id
                /\ timers' = Append(timers, [kind |-> "focus", id |-> blocks'[idx + n - 1].id,
                                              offset |-> Len(lines[n])])
       /\ lastOp' = "timer" =>
            /\ focusedBlockId' = Head(timers).id
            /\ cursorOffset' = Head(timers).offset]_vars

\* "ab" with the caret between a and b received three lines; the last block,
\* which ends in b, is focused at the length of the last pasted line
C13_Witness ==
    /\ lastOp = "timer"
    /\ Contents(blocks) = << <<"a", "x">>, <<PIPE>>, <<"z", "b">> >>
    /\ focusedBlockId = blocks[3].id
    /\ cursorOffset = 1

\* C14: Enter in a focused block whose trimmed content starts with a fence and
\* holds fewer than 2 fences inserts, at the caret, a line break followed by the
\* leading whitespace of the caret's line (of its part before the caret); the
\* blocks are otherwise the same, in the same order, and the focus stays.
C14_OpenCodeEnterIndents ==
    [][(lastOp' \in EnterOps
        /\ StartsWith(Trim(FocusedContent), Fence)
        /\ CountFences(FocusedContent) < 2)
          => LET c         == FocusedContent
                 k         == caret'
                 breaks    == {i \in 1..k : c[i] = NL}
                 lineStart == IF breaks = {} THEN 0
                              ELSE CHOOSE i \in breaks : \A j \in breaks : j <= i
                 indent    == LeadingWhitespace(SubSeq(c, lineStart + 1, k))
             IN  /\ blocks' = [blocks EXCEPT ![FocusIdx].content =
                                   SubSeq(c, 1, k) \o <<NL>> \o indent \o SubSeq(c, k + 1, Len(c))]
                 /\ focusedBlockId' = focusedBlockId]_vars

\* C15: Enter in a focused block whose trimmed content starts with a fence and
\* holds at least 2 fences leaves that block as it is and creates a new block
\* right after it, so that there is one block more.
C15_ClosedCodeEnterSplits ==
    [][(lastOp' \in EnterOps
        /\ StartsWith(Trim(FocusedContent), Fence)
        /\ CountFences(FocusedContent) >= 2)
          => /\ Len(blocks') = Len(blocks) + 1
             /\ blocks'[FocusIdx] = blocks[FocusIdx]
             /\ Without(blocks', FocusIdx + 1) = blocks]_vars

\* C16: a keydown while an IME composition is in progress in the focused
\* textarea, or that itself reports isComposing, leaves the blocks, the focused
\* block and the cursor request as they are and passes nothing to onChange.
C16_ComposingKeysDoNothing ==
    [][(lastOp' \in EnterOps \cup {"backspace", "tab", "arrowUp", "arrowDown", "keyIgnored"}
        /\ (focusedBlockId \in composing \/ lastOp' = "keyIgnored"))
          => /\ blocks' = blocks
             /\ focusedBlockId' = focusedBlockId
             /\ cursorOffset' = cursorOffset
             /\ lastOnChange' = lastOnChange
             /\ files' = files]_vars

\* a key went unheeded in an empty second block, which Backspace would remove
C16_Witness ==
    /\ lastOp = "keyIgnored"
    /\ focusedBlockId \in composing
    /\ FocusIdx = 2
    /\ FocusedContent = <<>>

\* C17: segmenting the joined content of freshly segmented blocks gives as many
\* blocks, with the same content and the same type at every position.
C17_ResegmentationIsStable ==
    pc = "resegmented" =>
        /\ Len(blocks) = Len(res)
        /\ \A i \in 1..Len(res) :
              blocks[i].content = res[i].content /\ blocks[i].type = res[i].type

\* a table line followed by an open fenced region was segmented twice
C17_Witness ==
    /\ pc = "resegmented"
    /\ Len(blocks) = 2
    /\ blocks[1].type = "table"
    /\ StartsWith(blocks[2].content, Fence)
    /\ Len(Split(blocks[2].content, NL)) = 2

\* C18: a fence line outside a region opens a code region, which runs through
\* the next fence line, inclusive, or to the end of the input; the region, table
\* lines inside it included, is exactly one text block; no other block holds a
\* fence line.
C18_CodeRegionIsOneBlock ==
    pc \in {"segmented", "resegmented"} =>
        \A b \in 1..Len(res) :
            LET ls == Split(res[b].content, NL)
                n  == Len(ls)
            IN  IF IsFenceLine(ls[1])
                THEN /\ res[b].type = "text"
                     /\ \A j \in 2..(n - 1) : ~IsFenceLine(ls[j])
                     /\ \/ n >= 2 /\ IsFenceLine(ls[n])
                        \/ b = Len(res) /\ \A j \in 2..n : ~IsFenceLine(ls[j])
                ELSE \A j \in 1..n : ~IsFenceLine(ls[j])

\* a table line between two fence lines ended up inside the one code block
C18_Witness ==
    /\ pc = "segmented"
    /\ arg = Fence \o <<NL, PIPE, "a", PIPE, NL>> \o Fence
    /\ Len(res) = 1
    /\ res[1].type = "text"
    /\ res[1].content = arg

\* C19: outside code regions every maximal run of table lines is exactly one
\* table block, and every other line, the empty line too, is a text block of
\* its own.
C19_TableRunsAndSingleLines ==
    pc \in {"segmented", "resegmented"} =>
        \A b \in 1..Len(res) :
            LET ls == Split(res[b].content, NL)
            IN  IsFenceLine(ls[1])
                \/ IF isTableLine(ls[1])
                   THEN /\ res[b].type = "table"
                        /\ \A j \in 1..Len(ls) : isTableLine(ls[j])
                        /\ b < Len(res) => ~isTableLine(Split(res[b + 1].content, NL)[1])
                   ELSE /\ res[b].type = "text"
                        /\ Len(ls) = 1

\* a line, an empty line and an indented line became three text blocks
C19_Witness ==
    /\ pc = "segmented"
    /\ arg = <<"a", NL, NL, SP, "a">>
    /\ Contents(res) = << <<"a">>, <<>>, <<SP, "a">> >>
    /\ \A i \in 1..3 : res[i].type = "text"

\* C20: after the default Enter on the text block at idx, the block created at
\* idx + 1 is the focused block and the cursor request is 0.
C20_EnterFocusesNewBlock ==
    [][lastOp' = "enter" =>
          /\ Len(blocks') = Len(blocks) + 1
          /\ \A j \in 1..Len(blocks) : blocks[j].id # blocks'[FocusIdx + 1].id
          /\ focusedBlockId' = blocks'[FocusIdx + 1].id
          /\ cursorOffset' = 0]_vars

C20_Witness ==
    /\ lastOp = "enter"
    /\ Len(blocks) = 2
    /\ blocks[1].content = <<"a", "b">>
    /\ focusedBlockId = blocks[2].id
    /\ blocks[2].content = <<>>
    /\ cursorOffset = 0

\* C21: after Enter converted the block at idx into a table, the fresh empty
\* text block at idx + 1 is the focused block and the cursor request is 0.
C21_ConversionFocusesNewBlock ==
    [][lastOp' = "enterTable" =>
          /\ focusedBlockId' = blocks'[FocusIdx + 1].id
          /\ cursorOffset' = 0]_vars

\* the store, the focus, the cursor request and what went through onChange
KeyFrame == <<blocks, focusedBlockId, cursorOffset, lastOnChange, files, propagated, timers>>

\* C22: a Backspace keydown in the first block, empty or not, or in a block
\* whose content is not empty leaves the blocks, the focused block and the
\* cursor request as they are and passes nothing to onChange.
C22_BackspaceIgnored ==
    [][(/\ lastOp' \in {"backspace", "backspaceIgnored"}
        /\ FocusIdx = 1 \/ FocusedContent # <<>>)
       => UNCHANGED KeyFrame]_vars

\* Backspace was pressed in the first block while it was empty and a block followed
C22_Witness ==
    /\ lastOp = "backspaceIgnored"
    /\ FocusIdx = 1
    /\ FocusedContent = <<>>
    /\ Len(blocks) = 2

\* the caret k is on the first, on the last line of content c
OnFirstLine(c, k) == \A i \in 1..k : c[i] # NL
OnLastLine(c, k) == \A i \in (k + 1)..Len(c) : c[i] # NL

\* C24: an arrow key never changes the blocks and passes nothing to onChange;
\* ArrowUp on the first line of block idx > 0 focuses block idx - 1 at the length
\* of its content, ArrowDown on the last line of block idx < last focuses block
\* idx + 1 at offset 0, ArrowUp in the first block and ArrowDown in the last
\* block change nothing.
C24_ArrowsOnlyMoveFocus ==
    [][LET up   == lastOp' \in {"arrowUp", "arrowUpIgnored"}
           down == lastOp' \in {"arrowDown", "arrowDownIgnored"}
           idx  == FocusIdx
       IN  (up \/ down) =>
              /\ UNCHANGED <<blocks, lastOnChange, files, propagated>>
              /\ (up /\ idx > 1 /\ OnFirstLine(FocusedContent, caret')) =>
                    /\ focusedBlockId' = blocks[idx - 1].id
                    /\ cursorOffset' = Len(blocks[idx - 1].content)
              /\ (down /\ idx < Len(blocks) /\ OnLastLine(FocusedContent, caret')) =>
                    /\ focusedBlockId' = blocks[idx + 1].id
                    /\ cursorOffset' = 0
              /\ (up /\ idx = 1) => UNCHANGED <<focusedBlockId, cursorOffset>>
              /\ (down /\ idx = Len(blocks)) => UNCHANGED <<focusedBlockId, cursorOffset>>]_vars

\* ArrowUp moved the focus from the second block to the end of the first
C24_Witness ==
    /\ lastOp = "arrowUp"
    /\ Len(blocks) = 2
    /\ FocusIdx = 1
    /\ FocusedContent = <<"a", "b">>
    /\ cursorOffset = 2

\* arr without its entry at the 0-based index at, if it has one
Removed(arr, at) ==
    IF at < 0 \/ at >= Len(arr) THEN arr
    ELSE [i \in 1..(Len(arr) - 1) |-> IF i <= at THEN arr[i] ELSE arr[i + 1]]

\* C25: removeColumn on a table of one column changes neither headers,
\* alignments nor rows and passes nothing to onChange; on a table of more columns
\* it takes the entry at the index out of the headers, out of the alignments and
\* out of every row.
C25_RemoveColumn ==
    [][call'.op = "removeColumn" =>
          IF Len(data.headers) <= 1
          THEN UNCHANGED <<data, lastOnChange>>
          ELSE \/ UNCHANGED vars
               \/ /\ data'.headers = Removed(data.headers, call'.a)
                  /\ data'.alignments = Removed(data.alignments, call'.a)
                  /\ Len(data'.rows) = Len(data.rows)
                  /\ \A r \in 1..Len(data.rows) :
                        data'.rows[r] = Removed(data.rows[r], call'.a)
                  /\ lastOnChange' =
                        serializeTable(data'.headers, data'.alignments, data'.rows)]_vars

\* removeColumn was called on a table of one column that had not been changed
C25_Witness ==
    /\ call.op = "removeColumn"
    /\ pc = "parsed"
    /\ Len(data.headers) = 1
    /\ data.headers[1] = <<"a">>
    /\ lastOnChange = NoChange

\* C26: moveRow(from, to) with to below 0 or not below the number of rows
\* changes nothing and passes nothing to onChange; otherwise the row at from is
\* at to afterwards, the other rows keep their order, and the number of rows and
\* every row's cells are as before.
C26_MoveRow ==
    [][call'.op = "moveRow" =>
          LET from == call'.a
              to   == call'.b
          IN  IF to < 0 \/ to >= Len(data.rows)
              THEN UNCHANGED <<data, lastOnChange>>
              ELSE \/ UNCHANGED vars
                   \/ /\ Len(data'.rows) = Len(data.rows)
                      /\ data'.rows[to + 1] = data.rows[from + 1]
                      /\ Removed(data'.rows, to) = Removed(data.rows, from)
                      /\ data'.headers = data.headers
                      /\ data'.alignments = data.alignments
                      /\ lastOnChange' =
                            serializeTable(data'.headers, data'.alignments, data'.rows)]_vars

\* the first of two different rows was moved below the second
C26_Witness ==
    /\ call = [op |-> "moveRow", a |-> 0, b |-> 1]
    /\ Len(data.rows) = 2
    /\ data.rows[1] # data.rows[2]
    /\ lastOnChange = serializeTable(data.headers, data.alignments, data.rows)

\* C27: the content of the table block that owns a TableEditor is the
\* serialization of the editor's headers, alignments and rows after every table
\* mutation: the two differ only as long as the editor, mounted on the content,
\* has not changed its model.
C27_TableBlockFollowsModel ==
    /\ TableFocused =>
          \/ FocusedContent = serializeTable(data.headers, data.alignments, data.rows)
          \/ data = TableEditorInit(FocusedContent)
    /\ (TableFocused /\ lastOp = "table") =>
          FocusedContent = serializeTable(data.headers, data.alignments, data.rows)

\* a row was added to a table: the table block holds the serialization of both rows
C27_Witness ==
    /\ TableFocused
    /\ lastOp = "table"
    /\ Len(data.rows) = 2
    /\ Len(data.headers) = 2
    /\ FocusedContent = serializeTable(data.headers, data.alignments, data.rows)
    /\ Len(Split(FocusedContent, NL)) = 4

\* the handlers that end in updateBlockContent for the focused block
UpdateOps == {"type", "tab", "enterCode", "table"}

\* bs with the content of the block at position idx replaced by c
WithContent(bs, idx, c) == [bs EXCEPT ![idx].content = c]

\* C28 as stated: updateBlockContent changes only the content of the block with
\* the id; the number of blocks and every other block are unchanged.
C28_AsStated ==
    [][lastOp' \in UpdateOps =>
          /\ Len(blocks') = Len(blocks)
          /\ blocks' = WithContent(blocks, FocusIdx, blocks'[FocusIdx].content)]_vars

\* the new content closes a code block that the old content left open
ClosesCodeBlock(old, new) ==
    /\ StartsWith(Trim(new), Fence)
    /\ EndsWith(Trim(new), Fence)
    /\ CountFences(old) < 2
    /\ CountFences(new) >= 2

\* C28: updateBlockContent keeps the id, the type and the position of the block
\* with the id and leaves every other block as it is; the number of blocks is
\* unchanged unless the new content closes a code block, and then one new empty
\* text block stands directly after the updated block.
C28_UpdateBlockContentFrame ==
    [][lastOp' \in UpdateOps =>
          LET idx == FocusIdx
              new == blocks'[idx].content
          IN  IF ClosesCodeBlock(blocks[idx].content, new)
              THEN /\ Len(blocks') = Len(blocks) + 1
                   /\ Without(blocks', idx + 1) = WithContent(blocks, idx, new)
                   /\ blocks'[idx + 1].content = <<>>
                   /\ blocks'[idx + 1].type = "text"
                   /\ \A j \in 1..Len(blocks) : blocks[j].id # blocks'[idx + 1].id
              ELSE blocks' = WithContent(blocks, idx, new)]_vars

\* typing the closing fence into the only block brought a second block
C28_Witness ==
    /\ lastOp = "type"
    /\ Len(blocks) = 2
    /\ FocusIdx = 1
    /\ blocks[1].content = Fence \o Fence
    /\ blocks[2].content = <<>>

\* the ids of the blocks bs
IdsOf(bs) == {bs[i].id : i \in 1..Len(bs)}

\* C29: the ids of the blocks are pairwise distinct in every state, and a
\* handler that adds blocks keeps the ids of the blocks it found and gives every
\* block it creates an id that none of them had.
C29_IdsDistinct ==
    /\ [](\A i, j \in 1..Len(blocks) : i # j => blocks[i].id # blocks[j].id)
    /\ [][Len(blocks') > Len(blocks) /\ lastOp' # "selectFile" =>
             Cardinality(IdsOf(blocks') \ IdsOf(blocks)) = Len(blocks') - Len(blocks)]_vars

\* C23: Tab in a focused code block puts exactly four spaces in at the caret,
\* so that the content is four characters longer, leaves the number of blocks,
\* every other block and the focused block as they are, and has the caret put
\* four positions behind its offset: the callback it schedules does that as long
\* as the block has its textarea.
C23_TabInsertsFourSpaces ==
    [][/\ lastOp' = "tab" =>
            LET idx == FocusIdx
                c   == FocusedContent
                k   == caret'
                new == SubSeq(c, 1, k) \o <<SP, SP, SP, SP>> \o SubSeq(c, k + 1, Len(c))
            IN  /\ blocks' = WithContent(blocks, idx, new)
                /\ Len(blocks'[idx].content) = Len(c) + 4
                /\ focusedBlockId' = focusedBlockId
                /\ timers' = Append(timers, [kind |-> "caret", id |-> focusedBlockId,
                                             offset |-> k + 4])
       /\ (/\ lastOp' = "caretTimer"
           /\ TextFocused
           /\ focusedBlockId = Head(timers).id
           /\ Head(timers).offset <= Len(FocusedContent)) =>
            /\ selection' = Head(timers).offset
            /\ UNCHANGED <<blocks, focusedBlockId>>]_vars

\* Tab at the start of an open code block: four spaces stand before the fence
\* and the caret is behind them
C23_Witness ==
    /\ lastOp = "caretTimer"
    /\ TextFocused
    /\ FocusedContent = <<SP, SP, SP, SP>> \o Fence \o <<NL, SP, "x">>
    /\ selection = 4
    /\ Len(blocks) = 1

PendingFocus == SelectSeq(timers, LAMBDA t : t.kind = "focus")

\* C31: a request for the focus on a block id that is no longer in the sequence
\* is dropped without a trace: the blocks, the documents and what was passed to
\* onChange stay as they are, and no block shows a textarea or a table editor.
C31_DanglingFocusDropped ==
    [][lastOp' = "timer" /\ focusedBlockId' # NoId /\ focusedBlockId' \notin IdsOf(blocks)
       => /\ blocks' = blocks
          /\ files' = files
          /\ lastOnChange' = lastOnChange
          /\ propagated' = propagated
          /\ ~TextFocused'
          /\ ~TableFocused'
          /\ selection' = NoOffset
          /\ data' = NoData]_vars

\* a deferred focus assignment ran for a block that was removed before
C31_Witness ==
    /\ lastOp = "timer"
    /\ focusedBlockId # NoId
    /\ focusedBlockId \notin IdsOf(blocks)
    /\ Len(blocks) > 0

\* C36: whenever no deferred focus assignment is pending, the focused id is null
\* or the id of a block of the sequence.
C36_FocusNamesABlock ==
    PendingFocus = <<>> /\ Mounted => focusedBlockId = NoId \/ focusedBlockId \in IdsOf(blocks)

\* the handlers that set the focus at once and schedule nothing
DirectFocusOps == {"click", "clickEmpty", "enter", "backspace", "arrowUp", "arrowDown", "drop"}

\* C33: at most one deferred focus assignment is pending at any time, and a
\* deferred assignment that runs after a later, direct change of the focus
\* leaves the focus and the cursor request of that later change in place.
C33_LatestFocusWins ==
    /\ [](Len(PendingFocus) <= 1)
    /\ [][lastOp' = "timer" /\ lastOp \in DirectFocusOps
          => focusedBlockId' = focusedBlockId /\ cursorOffset' = cursorOffset]_vars

\* the handlers of a focused textarea that end in updateBlockContent
FocusedUpdateOps == {"type", "pasteCode", "enterCode"}

\* the focus timers among the timers scheduled by the step
NewFocusTimers == SelectSeq(SubSeq(timers', Len(timers) + 1, Len(timers')),
                            LAMBDA t : t.kind = "focus")

\* C35: a content update that closes a code block inserts exactly one new empty
\* text block directly after the block and schedules one deferred assignment
\* for it, which, when it runs, focuses that block at offset 0; every other
\* content update inserts no block and schedules no focus; an update that names
\* an id that is not in the sequence changes nothing and propagates nothing.
C35_FenceCloseInsertsBlock ==
    /\ [][lastOp' \in FocusedUpdateOps =>
            LET idx == FocusIdx
                new == blocks'[idx].content
            IN  IF ClosesCodeBlock(blocks[idx].content, new)
                THEN /\ Len(blocks') = Len(blocks) + 1
                     /\ blocks'[idx + 1].content = <<>>
                     /\ blocks'[idx + 1].type = "text"
                     /\ blocks'[idx + 1].id \notin IdsOf(blocks)
                     /\ NewFocusTimers = <<[kind |-> "focus", id |-> blocks'[idx + 1].id,
                                            offset |-> 0]>>
                ELSE /\ Len(blocks') = Len(blocks)
                     /\ NewFocusTimers = <<>>]_vars
    /\ [][lastOp' = "timer" =>
            /\ focusedBlockId' = Head(timers).id
            /\ cursorOffset' = Head(timers).offset
            /\ blocks' = blocks]_vars
    /\ [][lastOp' = "staleUpdate" =>
            /\ blocks' = blocks
            /\ files' = files
            /\ lastOnChange' = lastOnChange
            /\ propagated' = propagated
            /\ timers' = timers
            /\ focusedBlockId' = focusedBlockId
            /\ cursorOffset' = cursorOffset]_vars

\* the deferred assignment ran that a closed code block had scheduled: the empty
\* block after it is focused at offset 0
C35_Witness ==
    /\ lastOp = "timer"
    /\ FocusIdx > 1
    /\ blocks[FocusIdx].content = <<>>
    /\ cursorOffset = 0
    /\ ClosesCodeBlock(<<>>, blocks[FocusIdx - 1].content)

\* the contents that a paste of text over a selection starting at s can leave in
\* a block that held c
PastedInto(c, s) ==
    {Substring(c, 0, s) \o text \o SubstringFrom(c, e) :
        <<text, e>> \in CodePasteTexts \X {x \in Carets(c) : x >= s}}

\* C39 as stated: a paste of several lines into a focused code block leaves the
\* number of blocks, their ids and the focused block unchanged and inserts the
\* text literally.
C39_AsStated ==
    [][lastOp' = "pasteCode" =>
          /\ Len(blocks') = Len(blocks)
          /\ \A j \in 1..Len(blocks) : blocks'[j].id = blocks[j].id
          /\ focusedBlockId' = focusedBlockId
          /\ blocks'[FocusIdx].content \in PastedInto(blocks[FocusIdx].content, caret')]_vars

\* C39: a paste of several lines into a focused code block never splits the
\* block: the block keeps its id, its position and the focus and receives the
\* text literally, and every other block stays as it is; one empty text block is
\* added directly after it when the pasted text closes the code block.
C39_PasteIntoCodeKeepsBlock ==
    [][lastOp' = "pasteCode" =>
          LET idx == FocusIdx
              new == blocks'[idx].content
          IN  /\ new \in PastedInto(blocks[idx].content, caret')
              /\ focusedBlockId' = focusedBlockId
              /\ IF ClosesCodeBlock(blocks[idx].content, new)
                 THEN /\ Without(blocks', idx + 1) = WithContent(blocks, idx, new)
                      /\ blocks'[idx + 1].content = <<>>
                      /\ blocks'[idx + 1].type = "text"
                 ELSE blocks' = WithContent(blocks, idx, new)]_vars

\* a line break and a fence pasted at the end of an open code block closed it
C39_Witness ==
    /\ lastOp = "pasteCode"
    /\ Len(blocks) = 2
    /\ focusedBlockId = blocks[1].id
    /\ blocks[1].content = Fence \o <<NL, SP, "x", NL>> \o Fence
    /\ blocks[2].content = <<>>

\* t with each line ending (carriage return and line feed, carriage return,
\* line feed) written as one line feed
RECURSIVE Normalized(_)
Normalized(t) ==
    IF t = <<>> THEN <<>>
    ELSE IF t[1] = CR
    THEN <<NL>> \o Normalized(IF Len(t) > 1 /\ t[2] = NL THEN SubSeq(t, 3, Len(t)) ELSE Tail(t))
    ELSE <<t[1]>> \o Normalized(Tail(t))

\* C37: a multi-line paste into a text block that is no code block is an edit of
\* the flat document: the joined content afterwards is the joined content
\* before with the selected range of the block replaced by the pasted text, its
\* line endings normalized; the blocks before and after the block are unchanged.
C37_PasteEditsFlatDocument ==
    [][lastOp' = "paste" =>
          LET idx    == FocusIdx
              c      == blocks[idx].content
              edited == Substring(c, 0, caret') \o Normalized(pasted'.text)
                        \o SubstringFrom(c, pasted'.end)
              added  == Len(blocks') - Len(blocks)
          IN  /\ JoinedContent(blocks') = JoinedContent(WithContent(blocks, idx, edited))
              /\ lastOnChange' = JoinedContent(blocks')
              /\ files'[activeFileId] = JoinedContent(blocks')
              /\ added = CountChar(Normalized(pasted'.text), NL)
              /\ SubSeq(blocks', 1, idx - 1) = SubSeq(blocks, 1, idx - 1)
              /\ SubSeq(blocks', idx + added + 1, Len(blocks'))
                    = SubSeq(blocks, idx + 1, Len(blocks))]_vars

\* text with both kinds of line ending was pasted over a selection of a block
\* that stands between two others
C37_Witness ==
    /\ lastOp = "paste"
    /\ CountChar(pasted.text, CR) > 0
    /\ pasted.end > caret
    /\ Len(blocks) > 4
    /\ FocusIdx > 1

\* C38: when the encoding of a dropped image completes, exactly one new text
\* block holding the image is appended to the blocks as they are then: the
\* blocks that exist at that moment, edits made during the encoding included,
\* stay as they are, and the new block is focused at offset 0.
C38_DropAppendsImageBlock ==
    [][lastOp' = "drop" =>
          /\ Len(blocks') = Len(blocks) + 1
          /\ SubSeq(blocks', 1, Len(blocks)) = blocks
          /\ blocks'[Len(blocks')].content = ImageMd
          /\ blocks'[Len(blocks')].type = "text"
          /\ blocks'[Len(blocks')].id \notin IdsOf(blocks)
          /\ focusedBlockId' = blocks'[Len(blocks')].id
          /\ cursorOffset' = 0
          /\ lastOnChange' = JoinedContent(blocks')]_vars

\* an image block was appended behind the blocks that the edits had left, and
\* is focused at offset 0
C38_Witness ==
    /\ lastOp = "drop"
    /\ Len(blocks) >= 3
    /\ blocks[Len(blocks)].content = ImageMd
    /\ focusedBlockId = blocks[Len(blocks)].id
    /\ cursorOffset = 0
    /\ \A j \in 1..(Len(blocks) - 1) : blocks[j].content # ImageMd

\* the strings between the pipes of a row, those of no character left out
TokensTyped(content) == SelectSeq(Split(Trim(content), PIPE), LAMBDA t : t # <<>>)

\* Enter found a table-trigger row in the focused block
OnTriggerRow ==
    /\ lastOp' \in EnterOps
    /\ blocks[FocusIdx].type = "text"
    /\ StartsWith(Trim(FocusedContent), <<PIPE>>)
    /\ CountChar(FocusedContent, PIPE) >= 2

C32_FailureReported ==
    [][lastOp' = "persistFailed" =>
          /\ saveStatus' = "unsaved"
          /\ files' = files]_vars

\* C40: once no auto-save is pending and the last write went well, what is
\* stored of every document is the content held of it: no edit is left
\* unsaved, whichever documents were edited and opened in between.
C40_EditsPersisted ==
    autoSaveTimer = NoSave /\ saveStatus = "saved" => stored = files

====
